---------------------------- MODULE Spec2Model ----------------------------
(***************************************************************************)
(* PPU-in-JPEG Snake: the APP15 "PPUJ" cartridge codec (ppujpeg.js) and    *)
(* the bounded-cycle interpreter with its Snake syscalls (vm.js).          *)
(*                                                                         *)
(* Byte arrays are sequences over 0..255, read with 0-based offsets as in  *)
(* the source.  A 32-bit unsigned value is a pair <<hi, lo>> of 16-bit     *)
(* halves, so that every intermediate value keeps its 32-bit width.        *)
(***************************************************************************)
EXTENDS Integers, Sequences, FiniteSets, TLC

VARIABLES
  image,      \* codec: the base JPEG handed to injectBeforeSOS
  segs,       \* codec: the APP15 payloads handed to injectBeforeSOS
  meta,       \* codec: how each element of segs was made (descriptor / raw)
  flip,       \* codec: the single bit flipped in one element of segs, if any
  injected,   \* codec: outcome of injectBeforeSOS(image, segs)
  parsed,     \* codec: outcome of parseCartridge(injected output)
  vm,         \* interpreter: the PPUVM instance (fields of the object)
  obs,        \* interpreter: what the last runFrame call did (its return value, its calls)
  frames,     \* interpreter: number of runFrame calls made on the instance
  failed,     \* interpreter: a runFrame stopped on an invalid opcode / unknown syscall
  host,       \* app.js: the module-level state of the host page
  calc        \* a pure function of app.js or vm.js under study: its arguments and its result

codecVars == <<image, segs, meta, flip, injected, parsed>>
vmVars    == <<vm, obs, frames, failed>>
hostVars  == <<host, calc>>
vars      == <<image, segs, meta, flip, injected, parsed, vm, obs, frames, failed, host, calc>>

None == [done |-> FALSE]

(***************************************************************************)
(* Integer helpers: JS bit operations on values of bounded width.          *)
(***************************************************************************)
RECURSIVE XorBits(_, _)
XorBits(a, b) ==
  IF a = 0 THEN b
  ELSE IF b = 0 THEN a
  ELSE ((a + b) % 2) + 2 * XorBits(a \div 2, b \div 2)

\* a ^ b on bytes, tabulated once
XorByte == [a \in 0..255 |-> [b \in 0..255 |-> XorBits(a, b)]]

\* a ^ b on 16-bit values
BitXor(a, b) == (XorByte[a \div 256][b \div 256] * 256) + XorByte[a % 256][b % 256]

RECURSIVE Pow2(_)
Pow2(n) == IF n = 0 THEN 1 ELSE 2 * Pow2(n - 1)

U32 == (0..65535) \X (0..65535)

U32Xor(x, y) == <<BitXor(x[1], y[1]), BitXor(x[2], y[2])>>

\* x << k on 32 bits, 0 < k < 16
U32Shl(x, k) ==
  << ((x[1] * Pow2(k)) % 65536) + (x[2] \div Pow2(16 - k)),
     (x[2] * Pow2(k)) % 65536 >>

\* x >>> k on 32 bits, 16 <= k < 32
U32ShrHi(x, k) == << 0, x[1] \div Pow2(k - 16) >>

\* (hi*65536 + lo) % m for small m
U32Mod(x, m) == (((x[1] % m) * (65536 % m)) + (x[2] % m)) % m

\* the element of a one-element set; Only({F(x) : x \in {e}}) is F(e) with e computed once
Only(S) == CHOOSE x \in S : TRUE

At(u8, off) == u8[off + 1]

Sub(u8, from, to) == SubSeq(u8, from + 1, to)

(***************************************************************************)
(* ppujpeg.js                                                              *)
(***************************************************************************)
APP15 == 239
SOI == 216
EOI == 217
SOS == 218

MagicBytes == <<80, 80, 85, 74>>

HeaderLen == 12

\* one step of the inner loop: m = -(c & 1); c = (c >>> 1) ^ (0xEDB88320 & m)
CrcShift(c) ==
  LET s == << c[1] \div 2, (c[2] \div 2) + ((c[1] % 2) * 32768) >>
  IN  IF c[2] % 2 = 1 THEN <<BitXor(s[1], 60856), BitXor(s[2], 33568)>> ELSE s

\* for (k = 0; k < 8; k++) of the inner loop
RECURSIVE CrcShifts(_, _)
CrcShifts(c, k) ==
  IF k = 0 THEN c ELSE Only({ CrcShift(x) : x \in {CrcShifts(c, k - 1)} })

CrcByte(c, b) == CrcShifts(<<c[1], BitXor(c[2], b)>>, 8)

\* the outer loop over bytes lo..hi-1, first half then second half
RECURSIVE CrcRange(_, _, _, _)
CrcRange(u8, lo, hi, c) ==
  IF lo >= hi THEN c
  ELSE IF hi = lo + 1 THEN CrcByte(c, At(u8, lo))
  ELSE LET mid == (lo + hi) \div 2
       IN  Only({ CrcRange(u8, mid, hi, c1) : c1 \in {CrcRange(u8, lo, mid, c)} })

CrcFrom(u8, i, c) == CrcRange(u8, i, Len(u8), c)

crc32(u8) == U32Xor(CrcFrom(u8, 0, <<65535, 65535>>), <<65535, 65535>>)

readU16BE(u8, off) == (At(u8, off) * 256) + At(u8, off + 1)

\* The JS expression ends in a chain of | and so yields a signed 32-bit value.
readU32BE(u8, off) ==
  LET b0 == At(u8, off)
      top == IF b0 >= 128 THEN b0 - 256 ELSE b0
  IN  (top * 16777216) + (At(u8, off + 1) * 65536) + (At(u8, off + 2) * 256) + At(u8, off + 3)

\* readU32BE(...) >>> 0, as a pair of halves
readU32BEu(u8, off) ==
  << (At(u8, off) * 256) + At(u8, off + 1), (At(u8, off + 2) * 256) + At(u8, off + 3) >>

U16Bytes(v) == << (v % 65536) \div 256, v % 256 >>

\* writeU32BE of a length (a value below 2^31)
LenBytes(n) == << n \div 16777216, (n \div 65536) % 256, (n \div 256) % 256, n % 256 >>

U32Bytes(x) == << x[1] \div 256, x[1] % 256, x[2] \div 256, x[2] % 256 >>

buildApp15Block(blockType, payload, version, crc, compressed) ==
  LET flagByte == (IF crc THEN 1 ELSE 0) + (IF compressed THEN 2 ELSE 0)
      head == MagicBytes \o <<version % 256, blockType % 256, flagByte % 256, 0>>
                \o LenBytes(Len(payload)) \o payload
  IN  IF crc THEN head \o U32Bytes(crc32(head)) ELSE head

Err(msg) == [done |-> TRUE, ok |-> FALSE, err |-> msg]

NotJpeg(u8) == Len(u8) < 4 \/ At(u8, 0) # 255 \/ At(u8, 1) # SOI

\* while(p < u8.length && u8[p] === 0xFF) p++
RECURSIVE SkipFill(_, _)
SkipFill(u8, p) ==
  IF p < Len(u8) /\ At(u8, p) = 255 THEN SkipFill(u8, p + 1) ELSE p

Standalone(marker) == (marker >= 208 /\ marker <= 215) \/ marker = 1

\* The marker walk of injectBeforeSOS from offset p: the SOS offset or the error.
RECURSIVE FindSOS(_, _)
FindSOS(u8, p) ==
  IF p >= Len(u8) THEN Err("Could not find SOS")
  ELSE IF At(u8, p) # 255 THEN Err("Malformed JPEG: expected marker 0xFF")
  ELSE LET q == SkipFill(u8, p) IN
    IF q >= Len(u8) THEN Err("Malformed JPEG: truncated marker")
    ELSE LET marker == At(u8, q)
             p1 == q + 1
         IN  IF marker = SOS THEN [done |-> TRUE, ok |-> TRUE, off |-> p1 - 2]
             ELSE IF marker = EOI THEN Err("Unexpected EOI before SOS")
             ELSE IF Standalone(marker) THEN FindSOS(u8, p1)
             ELSE IF p1 + 2 > Len(u8) THEN Err("Malformed JPEG: truncated segment length")
             ELSE LET segLen == readU16BE(u8, p1) IN
                    IF segLen < 2 THEN Err("Malformed JPEG: invalid segment length")
                    ELSE FindSOS(u8, p1 + segLen)

MaxSegLen == 65535

App15SegmentBareLength(pl) == <<255, APP15>> \o U16Bytes(Len(pl)) \o pl

App15Segment(pl) == <<255, APP15>> \o U16Bytes(Len(pl) + 2) \o pl

RECURSIVE ConcatSegments(_, _)
ConcatSegments(payloads, i) ==
  IF i > Len(payloads) THEN <<>>
  ELSE App15Segment(payloads[i]) \o ConcatSegments(payloads, i + 1)

injectOverSOS(u8, appPayloads) ==
  IF NotJpeg(u8) THEN Err("Not a JPEG (missing SOI)")
  ELSE LET w == FindSOS(u8, 2) IN
    IF ~w.ok THEN w
    ELSE [done |-> TRUE, ok |-> TRUE,
          out |-> Sub(u8, 0, w.off) \o ConcatSegments(appPayloads, 1) \o Sub(u8, w.off + 2, Len(u8))]

injectBeforeSOS(u8, appPayloads) ==
  IF NotJpeg(u8) THEN Err("Not a JPEG (missing SOI)")
  ELSE LET w == FindSOS(u8, 2) IN
    IF ~w.ok THEN w
    ELSE IF \E i \in 1..Len(appPayloads) : Len(appPayloads[i]) + 2 > MaxSegLen
      THEN Err("APP15 segment too large")
    ELSE [done |-> TRUE, ok |-> TRUE,
          out |-> Sub(u8, 0, w.off) \o ConcatSegments(appPayloads, 1) \o Sub(u8, w.off, Len(u8))]

HasMagic(pl) ==
  Len(pl) >= HeaderLen /\ pl[1] = 80 /\ pl[2] = 80 /\ pl[3] = 85 /\ pl[4] = 74

App15BlockUnchecked(pl, blocks, totalPayload, maxTotal) ==
  IF ~HasMagic(pl) THEN [ok |-> TRUE, blocks |-> blocks, total |-> totalPayload]
  ELSE LET flags == pl[7]
           n == readU32BE(pl, 8)
           crcLen == IF (flags % 2) = 1 THEN 4 ELSE 0
       IN  IF ((flags \div 4) % 2) = 1 THEN Err("Encrypted flag set (NOT USED per spec)")
           ELSE IF n # Len(pl) - HeaderLen - crcLen THEN Err("PPUJ block length mismatch")
           ELSE IF totalPayload + n > maxTotal THEN Err("Cartridge too large")
           ELSE [ok |-> TRUE,
                 blocks |-> Append(blocks, [version |-> pl[5], blockType |-> pl[6],
                                            flags |-> flags,
                                            payload |-> Sub(pl, HeaderLen, HeaderLen + n)]),
                 total |-> totalPayload + n]

\* Lines 157-177 for one APP15 payload: the error, or the block list and running total.
App15Block(pl, blocks, totalPayload, maxTotal) ==
  IF ~HasMagic(pl) THEN [ok |-> TRUE, blocks |-> blocks, total |-> totalPayload]
  ELSE LET flags == pl[7]
           hasCrc == (flags % 2) = 1
           encrypted == ((flags \div 4) % 2) = 1
           n == readU32BE(pl, 8)
           crcLen == IF hasCrc THEN 4 ELSE 0
       IN  IF encrypted THEN Err("Encrypted flag set (NOT USED per spec)")
           \* headerLen + n + crcLen !== pl.length (no overflow in JS numbers)
           ELSE IF n # Len(pl) - HeaderLen - crcLen THEN Err("PPUJ block length mismatch")
           ELSE IF totalPayload + n > maxTotal THEN Err("Cartridge too large")
           ELSE IF hasCrc /\ crc32(Sub(pl, 0, HeaderLen + n)) # readU32BEu(pl, HeaderLen + n)
             THEN Err("CRC32 mismatch")
           ELSE [ok |-> TRUE,
                 blocks |-> Append(blocks, [version |-> pl[5], blockType |-> pl[6],
                                            flags |-> flags,
                                            payload |-> Sub(pl, HeaderLen, HeaderLen + n)]),
                 total |-> totalPayload + n]

\* The marker walk of parseCartridge from offset p.
RECURSIVE ParseWalk(_, _, _, _, _)
ParseWalk(u8, p, blocks, totalPayload, maxTotal) ==
  IF p >= Len(u8) THEN [done |-> TRUE, ok |-> TRUE, blocks |-> blocks]
  ELSE IF At(u8, p) # 255 THEN Err("Malformed JPEG: expected marker 0xFF")
  ELSE LET q == SkipFill(u8, p) IN
    IF q >= Len(u8) THEN Err("Malformed JPEG: truncated marker")
    ELSE LET marker == At(u8, q)
             p1 == q + 1
         IN  IF marker = SOS \/ marker = EOI THEN [done |-> TRUE, ok |-> TRUE, blocks |-> blocks]
             ELSE IF Standalone(marker) THEN ParseWalk(u8, p1, blocks, totalPayload, maxTotal)
             ELSE IF p1 + 2 > Len(u8) THEN Err("Malformed JPEG: truncated segment length")
             ELSE LET segLen == readU16BE(u8, p1)
                      segEnd == p1 + segLen
                  IN  IF segLen < 2 THEN Err("Malformed JPEG: invalid segment length")
                      ELSE IF segEnd > Len(u8) THEN Err("Malformed JPEG: segment overruns file")
                      ELSE IF marker = APP15
                        THEN LET r == App15Block(Sub(u8, p1 + 2, segEnd), blocks,
                                                 totalPayload, maxTotal)
                             IN  IF ~r.ok THEN r
                                 ELSE ParseWalk(u8, segEnd, r.blocks, r.total, maxTotal)
                      ELSE ParseWalk(u8, segEnd, blocks, totalPayload, maxTotal)

MaxTotalDefault == 8388608

parseCartridge(u8, maxTotal) ==
  IF NotJpeg(u8) THEN Err("Not a JPEG (missing SOI)")
  ELSE ParseWalk(u8, 2, <<>>, 0, maxTotal)

(***************************************************************************)
(* Codec state machine: a caller assembles a list of APP15 payloads (blocks *)
(* made by buildApp15Block, or raw bytes of its own), possibly damages one  *)
(* bit, splices them into a base image and parses the result.               *)
(***************************************************************************)
NoFlip == [on |-> FALSE]

Zeros(n) == [i \in 1..n |-> 0]

ImgPlain == <<255, 216, 255, 218, 0, 3, 17, 55, 255, 217>>

ImgFill == <<255, 216, 255, 224, 0, 4, 170, 187, 255, 255, 218, 0, 2, 255, 217>>

ImgDecoy == <<255, 216, 255, 224, 0, 4, 255, 218, 255, 1, 255, 208, 255, 218, 9, 255, 217>>

ImgOtherApp15 == <<255, 216, 255, 239, 0, 5, 74, 70, 88, 255, 218, 0, 2, 255, 217>>

ImgCart == injectBeforeSOS(ImgPlain, <<buildApp15Block(1, <<9>>, 1, TRUE, FALSE)>>).out

ImgEoiFirst == <<255, 216, 255, 217>>

ImgNoSos == <<255, 216, 255, 224, 0, 2>>

ImgShort == <<255, 216, 255>>

ImgNotMarker == <<255, 216, 0, 255, 218>>

ImgBadLen == <<255, 216, 255, 224, 0, 1, 255, 218>>

ImgTruncMarker == <<255, 216, 255, 255>>

ImgTruncLen == <<255, 216, 255, 224, 0>>

BaseImages ==
  { ImgPlain, ImgFill, ImgDecoy, ImgOtherApp15, ImgCart, ImgEoiFirst, ImgNoSos,
    ImgShort, ImgNotMarker, ImgBadLen, ImgTruncMarker, ImgTruncLen }

FlipImages == { ImgPlain, ImgFill, ImgOtherApp15 }

Desc(blockType, payload, version, crc, compressed) ==
  [blockType |-> blockType, payload |-> payload, version |-> version,
   crc |-> crc, compressed |-> compressed]

\* what the caller passes to buildApp15Block
BlockInputs ==
  { Desc(1, <<>>, 1, TRUE, FALSE), Desc(2, <<255, 218>>, 1, TRUE, FALSE),
    Desc(2, <<64, 1, 1>>, 1, FALSE, TRUE), Desc(3, <<255, 217>>, 2, TRUE, TRUE),
    Desc(1, <<>>, 1, FALSE, FALSE), Desc(5, <<0>>, 1, FALSE, FALSE) }

FlipInputs ==
  { Desc(1, <<>>, 1, TRUE, FALSE), Desc(2, <<255, 218>>, 1, TRUE, TRUE),
    Desc(2, <<64>>, 1, FALSE, FALSE) }

\* a foreign APP15 payload, a PPUJ payload cut short of its 12-byte header (flags
\* byte 4), and payloads at and one past the largest size a segment can frame
RawPayloads == { <<1, 2>>, <<80, 80, 85, 74, 1, 1, 4>>, Zeros(MaxSegLen - 2), Zeros(MaxSegLen - 1) }

MaxBlocks == 2

MaxFlipBlocks == 2

SmallTotal == 3

CodecEmpty ==
  /\ segs = <<>>
  /\ meta = <<>>
  /\ flip = NoFlip
  /\ injected = None
  /\ parsed = None

VmAbsent ==
  /\ vm = None
  /\ obs = None
  /\ frames = 0
  /\ failed = FALSE

HostAbsent ==
  /\ host = None
  /\ calc = None

\* the caller makes one more block with buildApp15Block
AddBlock(d, max) ==
  /\ ~injected.done
  /\ ~flip.on
  /\ Len(segs) < max
  /\ segs' = Append(segs, buildApp15Block(d.blockType, d.payload, d.version, d.crc, d.compressed))
  /\ meta' = Append(meta, [kind |-> "block", d |-> d])
  /\ UNCHANGED <<image, flip, injected, parsed, vmVars, hostVars>>

\* the caller supplies a payload it did not make with buildApp15Block
AddRaw(bytes) ==
  /\ ~injected.done
  /\ ~flip.on
  /\ Len(segs) < MaxBlocks
  /\ segs' = Append(segs, bytes)
  /\ meta' = Append(meta, [kind |-> "raw"])
  /\ UNCHANGED <<image, flip, injected, parsed, vmVars, hostVars>>

\* one bit of one CRC-carrying block is flipped (bit k of the byte at offset off)
FlipBit(i, off, k) ==
  /\ ~injected.done
  /\ ~flip.on
  /\ meta[i].kind = "block"
  /\ meta[i].d.crc
  /\ segs' = [segs EXCEPT ![i][off + 1] = BitXor(@, Pow2(k))]
  /\ flip' = [on |-> TRUE, i |-> i, off |-> off, bit |-> k]
  /\ UNCHANGED <<image, meta, injected, parsed, vmVars, hostVars>>

Inject ==
  /\ ~injected.done
  /\ injected' = injectBeforeSOS(image, segs)
  /\ UNCHANGED <<image, segs, meta, flip, parsed, vmVars, hostVars>>

Parse(maxTotal) ==
  /\ injected.done
  /\ injected.ok
  /\ ~parsed.done
  /\ parsed' = [done |-> TRUE, res |-> parseCartridge(injected.out, maxTotal),
                maxTotal |-> maxTotal]
  /\ UNCHANGED <<image, segs, meta, flip, injected, vmVars, hostVars>>

CodecNext ==
  \/ \E d \in BlockInputs : AddBlock(d, MaxBlocks)
  \/ \E raw \in RawPayloads : AddRaw(raw)
  \/ Inject
  \/ \E m \in {MaxTotalDefault, SmallTotal} : Parse(m)

InitCodec == image \in BaseImages /\ CodecEmpty /\ VmAbsent /\ HostAbsent

SpecCodec == InitCodec /\ [][CodecNext]_vars

FlipNext ==
  \/ \E d \in FlipInputs : AddBlock(d, MaxFlipBlocks)
  \/ \E i \in 1..Len(segs) : \E off \in 0..(Len(segs[i]) - 1), k \in 0..7 : FlipBit(i, off, k)
  \/ Inject
  \/ Parse(MaxTotalDefault)

InitFlip == image \in FlipImages /\ CodecEmpty /\ VmAbsent /\ HostAbsent

SpecFlip == InitFlip /\ [][FlipNext]_vars

(***************************************************************************)
(* Codec properties                                                        *)
(***************************************************************************)
AllBuilt == \A i \in 1..Len(meta) : meta[i].kind = "block"

FlagByte(d) == (IF d.crc THEN 1 ELSE 0) + (IF d.compressed THEN 2 ELSE 0)

\* the supplied blocks, field for field
Supplied ==
  [i \in 1..Len(meta) |->
     [version |-> meta[i].d.version, blockType |-> meta[i].d.blockType,
      flags |-> FlagByte(meta[i].d), payload |-> meta[i].d.payload]]

SuppliedWithout(k) ==
  [j \in 1..(Len(meta) - 1) |-> IF j < k THEN Supplied[j] ELSE Supplied[j + 1]]

RECURSIVE SuppliedTotal(_)
SuppliedTotal(i) ==
  IF i > Len(meta) THEN 0 ELSE Len(meta[i].d.payload) + SuppliedTotal(i + 1)

\* the base image carries no cartridge block of its own
BaseCarriesNoBlock ==
  LET r == parseCartridge(image, MaxTotalDefault) IN r.ok /\ r.blocks = <<>>

\* C1 as stated: for any blocks made by buildApp15Block and any base image that
\* injectBeforeSOS accepts, parseCartridge of the spliced image returns exactly
\* the supplied blocks.
C1_RoundTripAnyBase ==
  (parsed.done /\ AllBuilt /\ parsed.maxTotal = MaxTotalDefault)
    => (parsed.res.ok /\ parsed.res.blocks = Supplied)

\* C1 amended: the round trip returns exactly the supplied blocks, in order and
\* field for field, when the base image carries no PPUJ block of its own and the
\* supplied payloads together do not exceed maxTotal.
C1_RoundTrip ==
  (parsed.done /\ AllBuilt /\ BaseCarriesNoBlock /\ SuppliedTotal(1) <= parsed.maxTotal)
    => (parsed.res.ok /\ parsed.res.blocks = Supplied)

C1_Witness ==
  /\ parsed.done
  /\ AllBuilt
  /\ image = ImgFill
  /\ Len(meta) = 2
  /\ meta[1].d.crc
  /\ meta[2].d.compressed
  /\ parsed.res.ok
  /\ Len(parsed.res.blocks) = 2

RECURSIVE ExpectedSegments(_, _)
ExpectedSegments(payloads, i) ==
  IF i > Len(payloads) THEN <<>>
  ELSE LET n == Len(payloads[i]) + 2
       IN  <<255, 239, n \div 256, n % 256>> \o payloads[i] \o ExpectedSegments(payloads, i + 1)

\* C2: a call of injectBeforeSOS leaves its inputs as they were; it fails when a
\* block is longer than 65533 bytes; otherwise its output is the input up to the
\* start-of-scan marker, one FF EF segment per block in order (length = block
\* length + 2, big-endian), and the input from the start-of-scan marker on.
C2_InjectFrame ==
  [][ (~injected.done /\ injected'.done) =>
        /\ image' = image
        /\ segs' = segs
        /\ (\E i \in 1..Len(segs) : Len(segs[i]) > 65533) => ~injected'.ok
        /\ injected'.ok =>
             LET sos == FindSOS(image, 2).off IN
               /\ At(image, sos) = 255
               /\ At(image, sos + 1) = 218
               /\ injected'.out = Sub(image, 0, sos) \o ExpectedSegments(segs, 1)
                                    \o Sub(image, sos, Len(image)) ]_vars

C2_Witness ==
  /\ injected.done
  /\ injected.ok
  /\ image = ImgDecoy
  /\ Len(segs) = 2
  /\ Len(segs[2]) = 65533

\* C3 as stated: flipping any single bit of a CRC-carrying block makes
\* parseCartridge report an error.
C3_AnyFlipIsAnError == (parsed.done /\ flip.on) => ~parsed.res.ok

\* C3 amended: flipping any single bit of a CRC-carrying block outside its four
\* magic bytes makes parseCartridge report an error; a flip inside the magic
\* makes the segment foreign, so it is skipped and the other blocks are returned.
C3_FlipDetected ==
  (parsed.done /\ flip.on) =>
    IF flip.off >= 4 THEN ~parsed.res.ok
    ELSE parsed.res.ok /\ parsed.res.blocks = SuppliedWithout(flip.i)

C3_Witness ==
  /\ parsed.done
  /\ flip.on
  /\ flip.off >= HeaderLen
  /\ flip.off < HeaderLen + Len(meta[flip.i].d.payload)
  /\ parsed.res = Err("CRC32 mismatch")

CarriesMagic(pl) == Len(pl) >= 4 /\ Sub(pl, 0, 4) = MagicBytes

EncryptedBit(pl) == Len(pl) >= 7 /\ (pl[7] \div 4) % 2 = 1

CrcLenOf(pl) == IF pl[7] % 2 = 1 THEN 4 ELSE 0

DeclaredMismatch(pl) ==
  Len(pl) >= 12 /\ readU32BE(pl, 8) # Len(pl) - 12 - CrcLenOf(pl)

CrcBad(pl) ==
  /\ Len(pl) >= 16
  /\ pl[7] % 2 = 1
  /\ ~DeclaredMismatch(pl)
  /\ crc32(Sub(pl, 0, Len(pl) - 4)) # readU32BEu(pl, Len(pl) - 4)

Defective(pl) == CarriesMagic(pl) /\ (EncryptedBit(pl) \/ DeclaredMismatch(pl) \/ CrcBad(pl))

\* C4: parseCartridge throws whenever some APP15 segment carrying the PPUJ magic
\* has the encrypted flag bit set, a declared length that does not match, or a
\* CRC mismatch; and when it returns, segments without the magic were skipped.
C4_AllOrNothing ==
  parsed.done =>
    /\ (\E i \in 1..Len(segs) : Defective(segs[i])) => ~parsed.res.ok
    /\ (AllBuilt /\ SuppliedTotal(1) > parsed.maxTotal) => ~parsed.res.ok

\* C4 on the code: the same, for segments that hold the full 12-byte block header.
C4_FullHeaderOnly ==
  parsed.done =>
    /\ (\E i \in 1..Len(segs) : Len(segs[i]) >= HeaderLen /\ Defective(segs[i]))
          => ~parsed.res.ok
    /\ (AllBuilt /\ SuppliedTotal(1) > parsed.maxTotal) => ~parsed.res.ok

(***************************************************************************)
(* vm.js: the PPUVM interpreter and its Snake syscalls.                    *)
(*                                                                         *)
(* The operators below work on a run s = [m |-> the instance, ev |-> the   *)
(* calls and callbacks made so far in the current runFrame].               *)
(***************************************************************************)
HALT == 1
SYSCALL == 64
SNAKE_INIT == 1
SNAKE_TICK == 2

DefaultCycleBudget == 50000

\* the value of a read outside an array and of an omitted argument; no byte and no budget equals it
Undefined == -1

Cell(x, y) == [x |-> x, y |-> y]

SeedSnake == <<Cell(10, 12), Cell(10, 13), Cell(10, 14)>>

\* new PPUVM({header, bytecode, truthTable, strings, onDraw})
PPUVM(header, bytecode, truthTable, strings) ==
  [ header |-> header,
    code |-> bytecode,
    truthTable |-> truthTable,
    strings |-> strings,
    pc |-> header.entryPoint,
    cycleBudget |-> DefaultCycleBudget,
    halted |-> FALSE,
    ioCmd |-> 0,
    ioTick |-> <<0, 0>>,
    modeBits |-> 0,
    prng |-> <<49407, 60929>>,
    render |-> [ gameOver |-> FALSE, score |-> 0, high |-> 0, boardW |-> 20, boardH |-> 20,
                 apple |-> Cell(10, 10), snake |-> SeedSnake, dir |-> 0, pendingDir |-> 0,
                 lastTick |-> <<65535, 65535>>, paused |-> FALSE ] ]

\* an instance made without tables
NewVM(header, bytecode) == PPUVM(header, bytecode, <<>>, <<>>)

Emit(s, e) == [s EXCEPT !.ev = Append(@, e)]

\* this.onDraw?.(this.render)
onDraw(s) == Emit(s, [e |-> "draw"])

\* xorshift32 on the 32-bit register; the new register value
randU32(prng) ==
  LET x1 == U32Xor(prng, U32Shl(prng, 13))
      x2 == U32Xor(x1, U32ShrHi(x1, 17))
  IN  U32Xor(x2, U32Shl(x2, 5))

Occupied(snake, W) == { snake[i].x + (snake[i].y * W) : i \in 1..Len(snake) }

MaxTries == 2048

\* the row-major scan of lines 740-748: the first free cell, if there is one
ScanApple(s, occ) ==
  LET W == s.m.render.boardW
      H == s.m.render.boardH
      free == { k \in 0..((W * H) - 1) : k \notin occ }
  IN  IF free = {} THEN s
      ELSE LET k == CHOOSE c \in free : \A d \in free : c <= d
           IN  [s EXCEPT !.m.render.apple = Cell(k % W, k \div W)]

\* one pass of the retry loop on st = [s, found, tries]: a draw, and the apple if
\* the drawn cell is free
SpawnTry(st, occ) ==
  LET r == randU32(st.s.m.prng)
      W == st.s.m.render.boardW
      H == st.s.m.render.boardH
      x == U32Mod(r, W)
      y == r[1] % H
      s1 == [st.s EXCEPT !.m.prng = r]
  IN  IF (x + (y * W)) \notin occ
        THEN [s |-> [s1 EXCEPT !.m.render.apple = Cell(x, y)], found |-> TRUE, tries |-> st.tries + 1]
      ELSE [s |-> s1, found |-> FALSE, tries |-> st.tries + 1]

\* n passes of the retry loop, left as soon as a pass has found a cell: the first
\* half of the passes, then the rest
RECURSIVE SpawnTries(_, _, _)
SpawnTries(st, occ, n) ==
  IF st.found \/ n <= 0 THEN st
  ELSE IF n = 1 THEN Only({ SpawnTry(t, occ) : t \in {st} })
  ELSE Only({ SpawnTries(t, occ, n - (n \div 2)) : t \in {SpawnTries(st, occ, n \div 2)} })

\* variant: the apple goes to the cell of the first draw, occupied or not
spawnLoopFirstDraw(s) ==
  LET r == randU32(s.m.prng)
  IN  [s |-> [s EXCEPT !.m.prng = r,
                       !.m.render.apple = Cell(U32Mod(r, s.m.render.boardW), r[1] % s.m.render.boardH)],
       found |-> TRUE, tries |-> 1]

\* spawnApple with the number of draws it made
spawnLoop(s) ==
  Only({ Only({ IF st.found THEN st ELSE [st EXCEPT !.s = ScanApple(st.s, occ)]
                : st \in {SpawnTries([s |-> s, found |-> FALSE, tries |-> 0], occ, MaxTries)} })
         : occ \in {Occupied(s.m.render.snake, s.m.render.boardW)} })

spawnApple(s) == spawnLoop(s).s

\* variant: INIT leaves the game running
snakeInitRunning(s) ==
  LET s1 == [s EXCEPT !.m.render.boardW = 20,
                      !.m.render.boardH = 20,
                      !.m.render.dir = 0,
                      !.m.render.pendingDir = 0,
                      !.m.render.paused = FALSE,
                      !.m.render.gameOver = FALSE,
                      !.m.render.score = 0,
                      !.m.render.snake = SeedSnake,
                      !.m.prng = U32Xor(<<42405, 42405>>, s.m.header.osId)]
  IN  onDraw(spawnApple(s1))

\* variant: INIT keeps the PRNG register it finds
snakeInitNoReseed(s) ==
  LET s1 == [s EXCEPT !.m.render.boardW = 20,
                      !.m.render.boardH = 20,
                      !.m.render.dir = 0,
                      !.m.render.pendingDir = 0,
                      !.m.render.paused = TRUE,
                      !.m.render.gameOver = FALSE,
                      !.m.render.score = 0,
                      !.m.render.snake = SeedSnake]
  IN  onDraw(spawnApple(s1))

\* variant: INIT keeps the score it finds
snakeInitKeepScore(s) ==
  LET s1 == [s EXCEPT !.m.render.boardW = 20,
                      !.m.render.boardH = 20,
                      !.m.render.dir = 0,
                      !.m.render.pendingDir = 0,
                      !.m.render.paused = TRUE,
                      !.m.render.gameOver = FALSE,
                      !.m.render.snake = SeedSnake,
                      !.m.prng = U32Xor(<<42405, 42405>>, s.m.header.osId)]
  IN  onDraw(spawnApple(s1))

snakeInit(s) ==
  LET s1 == [s EXCEPT !.m.render.boardW = 20,
                      !.m.render.boardH = 20,
                      !.m.render.dir = 0,
                      !.m.render.pendingDir = 0,
                      !.m.render.paused = TRUE,
                      !.m.render.gameOver = FALSE,
                      !.m.render.score = 0,
                      !.m.render.snake = SeedSnake,
                      !.m.prng = U32Xor(<<42405, 42405>>, s.m.header.osId)]
  IN  onDraw(spawnApple(s1))

\* ({1:0,4:1,2:2,3:3})[cmd]
WantOf(cmd) == CASE cmd = 1 -> 0 [] cmd = 4 -> 1 [] cmd = 2 -> 2 [] cmd = 3 -> 3

\* variant: every turn is taken
TurnAlways(want, cur) == TRUE

\* lines 768-774: may the pending direction become want?
TurnAllowed(want, cur) == ((want + 2) % 4) # cur

DX == <<0, 1, 0, -1>>
DY == <<-1, 0, 1, 0>>

\* variant: the tail cell counts as body in every move
snakeMoveTailBlocks(s) ==
  LET r == s.m.render
      W == r.boardW
      H == r.boardH
      head == r.snake[1]
      dir == r.pendingDir
      nx == head.x + DX[dir + 1]
      ny == head.y + DY[dir + 1]
      s1 == [s EXCEPT !.m.render.dir = dir]
      willGrow == nx = r.apple.x /\ ny = r.apple.y
      bodySet == Occupied(r.snake, W)
      longer == <<Cell(nx, ny)>> \o r.snake
  IN  IF nx < 0 \/ ny < 0 \/ nx >= W \/ ny >= H
        THEN onDraw([s1 EXCEPT !.m.render.gameOver = TRUE])
      ELSE IF (nx + (ny * W)) \in bodySet
        THEN onDraw([s1 EXCEPT !.m.render.gameOver = TRUE])
      ELSE IF willGrow
        THEN LET score == r.score + 1
                 s2 == [s1 EXCEPT !.m.render.snake = longer,
                                  !.m.render.score = score,
                                  !.m.render.high = IF score > @ THEN score ELSE @]
             IN  onDraw(spawnApple(s2))
      ELSE onDraw([s1 EXCEPT !.m.render.snake = SubSeq(longer, 1, Len(longer) - 1)])

\* variant: no test of the body
snakeMoveThroughBody(s) ==
  LET r == s.m.render
      W == r.boardW
      H == r.boardH
      head == r.snake[1]
      dir == r.pendingDir
      nx == head.x + DX[dir + 1]
      ny == head.y + DY[dir + 1]
      s1 == [s EXCEPT !.m.render.dir = dir]
      willGrow == nx = r.apple.x /\ ny = r.apple.y
      longer == <<Cell(nx, ny)>> \o r.snake
  IN  IF nx < 0 \/ ny < 0 \/ nx >= W \/ ny >= H
        THEN onDraw([s1 EXCEPT !.m.render.gameOver = TRUE])
      ELSE IF willGrow
        THEN LET score == r.score + 1
                 s2 == [s1 EXCEPT !.m.render.snake = longer,
                                  !.m.render.score = score,
                                  !.m.render.high = IF score > @ THEN score ELSE @]
             IN  onDraw(spawnApple(s2))
      ELSE onDraw([s1 EXCEPT !.m.render.snake = SubSeq(longer, 1, Len(longer) - 1)])

\* lines 781-821: the move of an unpaused, running game
snakeMove(s) ==
  LET r == s.m.render
      W == r.boardW
      H == r.boardH
      head == r.snake[1]
      dir == r.pendingDir
      nx == head.x + DX[dir + 1]
      ny == head.y + DY[dir + 1]
      s1 == [s EXCEPT !.m.render.dir = dir]
      willGrow == nx = r.apple.x /\ ny = r.apple.y
      tail == r.snake[Len(r.snake)]
      bodySet == IF willGrow THEN Occupied(r.snake, W)
                 ELSE Occupied(r.snake, W) \ {tail.x + (tail.y * W)}
      longer == <<Cell(nx, ny)>> \o r.snake
  IN  IF nx < 0 \/ ny < 0 \/ nx >= W \/ ny >= H
        THEN onDraw([s1 EXCEPT !.m.render.gameOver = TRUE])
      ELSE IF (nx + (ny * W)) \in bodySet
        THEN onDraw([s1 EXCEPT !.m.render.gameOver = TRUE])
      ELSE IF willGrow
        THEN LET score == r.score + 1
                 s2 == [s1 EXCEPT !.m.render.snake = longer,
                                  !.m.render.score = score,
                                  !.m.render.high = IF score > @ THEN score ELSE @]
             IN  onDraw(spawnApple(s2))
      ELSE onDraw([s1 EXCEPT !.m.render.snake = SubSeq(longer, 1, Len(longer) - 1)])

\* variant: a finished game ticks on
snakeTickProcessPastGameOver(s) ==
  LET t == s.m.ioTick
      cmd == s.m.ioCmd
      r == s.m.render
      s0 == [s EXCEPT !.m.render.lastTick = t]
  IN  IF cmd = 6
        THEN LET s1 == snakeInit(s0) IN [s1 EXCEPT !.m.render.paused = FALSE]
      ELSE LET s1 == IF cmd = 5
                       THEN (IF ~r.gameOver THEN [s0 EXCEPT !.m.render.paused = ~@] ELSE s0)
                     ELSE IF cmd >= 1 /\ cmd <= 4
                       THEN (IF TurnAllowed(WantOf(cmd), r.dir)
                               THEN [s0 EXCEPT !.m.render.pendingDir = WantOf(cmd)]
                               ELSE s0)
                     ELSE s0
           IN  IF s1.m.render.paused THEN onDraw(s1)
               ELSE snakeMove(s1)

\* lines 757-822: a tick that is not a replay
snakeTickProcess(s) ==
  LET t == s.m.ioTick
      cmd == s.m.ioCmd
      r == s.m.render
      s0 == [s EXCEPT !.m.render.lastTick = t]
  IN  IF cmd = 6
        THEN LET s1 == snakeInit(s0) IN [s1 EXCEPT !.m.render.paused = FALSE]
      ELSE LET s1 == IF cmd = 5
                       THEN (IF ~r.gameOver THEN [s0 EXCEPT !.m.render.paused = ~@] ELSE s0)
                     ELSE IF cmd >= 1 /\ cmd <= 4
                       THEN (IF TurnAllowed(WantOf(cmd), r.dir)
                               THEN [s0 EXCEPT !.m.render.pendingDir = WantOf(cmd)]
                               ELSE s0)
                     ELSE s0
           IN  IF s1.m.render.paused \/ s1.m.render.gameOver THEN onDraw(s1)
               ELSE snakeMove(s1)

\* variant: no replay guard
snakeTickAlways(s) == snakeTickProcess(s)

snakeTick(s) ==
  IF s.m.ioTick = s.m.render.lastTick THEN Emit(s, [e |-> "skip"])
  ELSE snakeTickProcess(s)

\* variant: an unknown id is reported and the run goes on
syscallUnknownIgnored(s, id) ==
  IF id = SNAKE_INIT THEN snakeInit(s)
  ELSE IF id = SNAKE_TICK THEN snakeTick(s)
  ELSE Emit(s, [e |-> "badsys"])

syscall(s, id) ==
  IF id = SNAKE_INIT THEN snakeInit(s)
  ELSE IF id = SNAKE_TICK THEN snakeTick(s)
  ELSE Emit([s EXCEPT !.m.halted = TRUE], [e |-> "badsys"])

\* this.syscall(id), with the instance recorded as the call is made and as it returns;
\* at is the cycle count when the id that selects the call was fetched
Dispatch(s, id, at) ==
  Only({ Emit(r, [e |-> "ret", m |-> r.m]) :
         r \in {syscall(Emit(s, [e |-> "sys", id |-> id, at |-> at, m |-> s.m]), id)} })

\* this.code[pc]: a read outside the array yields undefined
Fetch(code, pc) == IF pc >= 0 /\ pc < Len(code) THEN At(code, pc) ELSE Undefined

RECURSIVE RunLoop(_, _, _)
RunLoop(s, cycles, budget) ==
  IF s.m.halted \/ ~(cycles < budget) THEN [s |-> s, cycles |-> cycles]
  ELSE LET op == Fetch(s.m.code, s.m.pc)
           s1 == Emit([s EXCEPT !.m.pc = @ + 1], [e |-> "op", at |-> cycles])
           c1 == cycles + 1
       IN  IF op = HALT THEN [s |-> [s1 EXCEPT !.m.halted = TRUE], cycles |-> c1]
           ELSE IF op = SYSCALL
             THEN LET id == Fetch(s1.m.code, s1.m.pc)
                      s2 == Emit([s1 EXCEPT !.m.pc = @ + 1], [e |-> "id", at |-> c1])
                  IN  Only({ RunLoop(t, c1 + 1, budget) : t \in {Dispatch(s2, id, c1)} })
           ELSE [s |-> Emit([s1 EXCEPT !.m.halted = TRUE], [e |-> "badop"]), cycles |-> c1]

runFrame(m, cycleBudget) ==
  LET budget == IF cycleBudget = Undefined THEN m.cycleBudget ELSE cycleBudget
      r == RunLoop([m |-> [m EXCEPT !.halted = FALSE], ev |-> <<>>], 0, budget)
  IN  [m |-> [r.s.m EXCEPT !.halted = TRUE], ev |-> r.s.ev, cycles |-> r.cycles]

setIO(m, cmd, tick) == [m EXCEPT !.ioCmd = cmd % 65536, !.ioTick = tick, !.modeBits = 0]

reset(m) == [m EXCEPT !.pc = m.header.entryPoint, !.halted = FALSE, !.prng = <<49407, 60929>>]

(***************************************************************************)
(* Interpreter state machine: a host constructs one instance and then      *)
(* calls setIO, runFrame and reset on it in any order.                     *)
(***************************************************************************)
OsSnak == <<21326, 16715>>

OsIds == { OsSnak, <<0, 0>> }

EntryPoints == {0, 2}

ProgBuiltin == <<64, 1, 64, 2, 1>>

ProgTicks == <<64, 1, 64, 2, 64, 2, 64, 2, 1>>

ProgBadOp == <<64, 1, 7, 64, 2, 1>>

ProgBadSys == <<64, 9, 64, 2, 1>>

ProgCut == <<64, 2, 64>>

Programs == { ProgBuiltin, ProgTicks, ProgBadOp, ProgBadSys, ProgCut }

Cmds == 0..7

Ticks == { <<0, 1>>, <<0, 2>>, <<65535, 65535>> }

Budgets == { 0, 1, 2, 10000 }

MaxFrames == 2

CodecAbsent ==
  /\ image = <<>>
  /\ CodecEmpty

InitVM ==
  /\ \E pg \in Programs, os \in OsIds, ep \in EntryPoints :
       vm = NewVM([entryPoint |-> ep, osId |-> os], pg)
  /\ obs = None
  /\ frames = 0
  /\ failed = FALSE
  /\ CodecAbsent
  /\ HostAbsent

SetIO(cmd, tick) ==
  /\ frames < MaxFrames
  /\ vm' = setIO(vm, cmd, tick)
  /\ UNCHANGED <<obs, frames, failed, codecVars, hostVars>>

Frame(cycleBudget, max) ==
  /\ frames < max
  /\ \E r \in {runFrame(vm, cycleBudget)} :
       /\ vm' = r.m
       /\ obs' = [done |-> TRUE, budget |-> cycleBudget, ret |-> r.cycles, ev |-> r.ev]
       /\ failed' = (failed \/ \E i \in 1..Len(r.ev) : r.ev[i].e \in {"badop", "badsys"})
  /\ frames' = frames + 1
  /\ UNCHANGED <<codecVars, hostVars>>

RunFrame(cycleBudget) == Frame(cycleBudget, MaxFrames)

\* reset() re-arms the instance: it is a new start, not a later frame of the old run
Reset ==
  /\ frames < MaxFrames
  /\ vm' = reset(vm)
  /\ failed' = FALSE
  /\ UNCHANGED <<obs, frames, codecVars, hostVars>>

VMNext ==
  \/ \E cmd \in Cmds, tick \in Ticks : SetIO(cmd, tick)
  \/ \E b \in Budgets : RunFrame(b)
  \/ Reset

SpecVM == InitVM /\ [][VMNext]_vars

(***************************************************************************)
(* A game played frame by frame: one osId, a program of INIT followed by   *)
(* one TICK per frame, each frame run with a budget of one syscall, and a  *)
(* tick register that either advances by one or replays the last value.    *)
(***************************************************************************)
MaxGameFrames == 5

RECURSIVE TickProgram(_)
TickProgram(n) == IF n = 0 THEN <<SYSCALL, SNAKE_INIT>> ELSE TickProgram(n - 1) \o <<SYSCALL, SNAKE_TICK>>

GameCmds == 0..6

InitGame ==
  /\ vm = NewVM([entryPoint |-> 0, osId |-> OsSnak], TickProgram(MaxGameFrames))
  /\ obs = None
  /\ frames = 0
  /\ failed = FALSE
  /\ CodecAbsent
  /\ HostAbsent

GameIO(cmd, replay) ==
  /\ frames < MaxGameFrames
  /\ vm' = setIO(vm, cmd, <<0, IF replay /\ frames > 0 THEN frames - 1 ELSE frames>>)
  /\ UNCHANGED <<obs, frames, failed, codecVars, hostVars>>

GameFrame == Frame(2, MaxGameFrames)

GameNext ==
  \/ \E cmd \in GameCmds, replay \in BOOLEAN : GameIO(cmd, replay)
  \/ GameFrame

SpecGame == InitGame /\ [][GameNext]_vars

(***************************************************************************)
(* Interpreter properties.  obs holds the last runFrame call: its budget,  *)
(* the count it returned, and what it did, in order.                       *)
(***************************************************************************)
Ev == IF obs.done THEN obs.ev ELSE <<>>

IsSys(i, id) == Ev[i].e = "sys" /\ Ev[i].id = id

\* the return of the call made at event i
RetOf(i) == CHOOSE j \in (i + 1)..Len(Ev) :
              Ev[j].e = "ret" /\ \A k \in (i + 1)..(j - 1) : Ev[k].e # "ret"

Before(i) == Ev[i].m

After(i) == Ev[RetOf(i)].m

\* the instance's game state: every render field and the PRNG register
Game(m) == <<m.render, m.prng>>

Replayed(i) == Before(i).ioTick = Before(i).render.lastTick

\* C5: once a frame has stopped on an invalid opcode or an unknown syscall id, every
\* later runFrame call leaves the instance halted, runs no syscall and changes no
\* game-state field.
C5_FailClosedPermanent ==
  [][(failed /\ frames' = frames + 1) =>
       /\ vm'.halted
       /\ Game(vm') = Game(vm)
       /\ \A i \in 1..Len(obs'.ev) : obs'.ev[i].e # "sys"]_vars

\* C6: a TICK whose tick register equals lastTick changes no game-state field and
\* does not invoke the render callback, whatever the command register holds.
C6_TickIdempotent ==
  \A i \in 1..Len(Ev) :
    (IsSys(i, SNAKE_TICK) /\ Replayed(i)) =>
      /\ Game(After(i)) = Game(Before(i))
      /\ \A k \in i..RetOf(i) : Ev[k].e # "draw"

C6_Witness ==
  \E i \in 1..Len(Ev) :
    /\ IsSys(i, SNAKE_TICK) /\ Replayed(i)
    /\ Before(i).ioCmd = 6
    /\ Before(i).render.snake # SeedSnake
    /\ After(i).render.snake = Before(i).render.snake

CmdDir == [c \in 1..4 |-> <<0, 2, 3, 1>>[c]]

Opposite == [d \in 0..3 |-> <<2, 3, 0, 1>>[d + 1]]

\* the tick at event i moved the snake: a new head was put in front of the old one
Moved(i) ==
  /\ Before(i).ioCmd # 6
  /\ After(i).render.snake[1] # Before(i).render.snake[1]

\* C7: on a processed TICK with command 1..4, pendingDir becomes the commanded
\* direction exactly when that is not the opposite of the current direction, and is
\* otherwise unchanged; and no move goes in the direction opposite to the previous one:
\* the new head is never the cell behind the old head.
C7_ReverseRejected ==
  \A i \in 1..Len(Ev) :
    (IsSys(i, SNAKE_TICK) /\ ~Replayed(i)) =>
      LET pre == Before(i).render
          post == After(i).render
          c == Before(i).ioCmd
      IN  /\ (c \in 1..4) =>
               post.pendingDir = IF Opposite[CmdDir[c]] # pre.dir THEN CmdDir[c] ELSE pre.pendingDir
          /\ Moved(i) =>
               /\ post.dir # Opposite[pre.dir]
               /\ post.snake[1] # pre.snake[2]

C7_Witness ==
  \E i \in 1..Len(Ev) :
    /\ IsSys(i, SNAKE_TICK) /\ ~Replayed(i)
    /\ Before(i).render.dir = 1
    /\ Before(i).ioCmd = 3
    /\ Moved(i)
    /\ After(i).render.pendingDir = 1

\* event j is the first syscall after the INIT at event i
InitThenTick(i, j) ==
  /\ i < j
  /\ IsSys(i, SNAKE_INIT)
  /\ IsSys(j, SNAKE_TICK)
  /\ \A k \in (i + 1)..(j - 1) : Ev[k].e # "sys"

UpOne == <<Cell(10, 11), Cell(10, 12), Cell(10, 13)>>

FirstTick(j, cmd) ==
  /\ vm.header.osId = OsSnak
  /\ \E i \in 1..Len(Ev) : InitThenTick(i, j)
  /\ Before(j).ioCmd = cmd
  /\ Before(j).ioTick = <<0, 1>>
  /\ ~Replayed(j)

\* C9 as stated: with osId 0x534E414B, the first TICK after INIT with command 0 and
\* tick 1 moves the snake one cell up and leaves the score 0.
C9_FirstTickCmd0Moves ==
  \A j \in 1..Len(Ev) :
    FirstTick(j, 0) => (After(j).render.snake = UpOne /\ After(j).render.score = 0)

\* C9: with osId 0x534E414B, INIT leaves the snake on its seed and the game paused;
\* the first TICK after INIT with tick 1 moves the snake one cell up with score 0
\* when the command is 5 (start), and leaves the snake on its seed, paused, when the
\* command is 0.
C9_FirstTickAfterInit ==
  /\ \A i \in 1..Len(Ev) :
       (IsSys(i, SNAKE_INIT) /\ vm.header.osId = OsSnak) =>
         (After(i).render.snake = SeedSnake /\ After(i).render.paused)
  /\ \A j \in 1..Len(Ev) :
       /\ FirstTick(j, 5) =>
            /\ After(j).render.snake = UpOne
            /\ After(j).render.score = 0
            /\ ~After(j).render.paused
       /\ FirstTick(j, 0) =>
            /\ After(j).render.snake = SeedSnake
            /\ After(j).render.score = 0
            /\ After(j).render.paused

C9_Witness ==
  \E j \in 1..Len(Ev) : FirstTick(j, 5) /\ After(j).render.snake = UpOne

\* C10: runFrame(b) returns a count of at most b, and fetches no opcode, fetches no
\* syscall id and dispatches no syscall once the count has reached b.
C10_CycleBudget ==
  obs.done =>
    /\ obs.ret <= obs.budget
    /\ \A i \in 1..Len(Ev) : (Ev[i].e \in {"op", "id", "sys"}) => Ev[i].at < obs.budget

\* what the loop does guarantee: the budget is tested before each opcode fetch only,
\* so a frame overruns it by at most the one id cycle of a SYSCALL
C10_OpcodeFetchWithinBudget ==
  obs.done =>
    /\ obs.ret <= obs.budget + 1
    /\ \A i \in 1..Len(Ev) : (Ev[i].e = "op") => Ev[i].at < obs.budget

\* the instance as event i of the frame just run found it: the one the latest call
\* or return before i recorded, or the one the frame started on
RECURSIVE InstanceAt(_, _, _)
InstanceAt(ev, i, start) ==
  IF i <= 1 THEN start
  ELSE IF ev[i - 1].e \in {"sys", "ret"} THEN ev[i - 1].m
  ELSE InstanceAt(ev, i - 1, start)

\* event i of the frame reports an invalid opcode or an unknown syscall id
Stops(ev, i) == ev[i].e \in {"badop", "badsys"}

\* C21: within one runFrame call, after an invalid opcode or an unknown syscall id
\* (a fetch past the end of the bytecode included) no opcode or id is fetched, no
\* syscall is dispatched, the render callback does not run, no game-state field
\* changes, and the call returns its cycle count with the instance halted.
C21_FailClosedInFrame ==
  [][(frames' = frames + 1) =>
       \A i \in 1..Len(obs'.ev) :
         Stops(obs'.ev, i) =>
           /\ \A k \in (i + 1)..Len(obs'.ev) : obs'.ev[k].e \notin {"op", "id", "sys", "draw", "skip"}
           /\ Game(vm') = Game(InstanceAt(obs'.ev, i, vm))
           /\ vm'.halted
           /\ obs'.ret \in 1..(obs'.budget + 1)]_vars

\* a frame ran a TICK that moved the snake and then stopped on a SYSCALL whose id
\* lies past the end of the bytecode
C21_Witness ==
  /\ obs.done
  /\ Len(Ev) >= 2
  /\ Ev[Len(Ev)].e = "ret"
  /\ Ev[Len(Ev) - 1].e = "badsys"
  /\ vm.pc > Len(vm.code)
  /\ \E i \in 1..Len(Ev) : IsSys(i, SNAKE_TICK) /\ Moved(i)

(***************************************************************************)
(* app.js: the cartridge schema (Header, Truth Table, String Table) and    *)
(* the truth-table builder and resolver.                                   *)
(*                                                                         *)
(* A Map, and an object used as a dictionary, is the sequence of its       *)
(* entries [k, v] in insertion order.  A string made of bytes is the       *)
(* sequence of its code units.                                             *)
(***************************************************************************)
\* the value of arithmetic on undefined
NaN == -2

RangeError == Err("RangeError: offset is outside the bounds of the DataView")

Val(v) == [done |-> TRUE, ok |-> TRUE, val |-> v]

\* ToIndex of a DataView offset: NaN reads as 0
ToIndex(off) == IF off = NaN THEN 0 ELSE off

\* may dv.getUintN(off) read size bytes?
InView(payload, off, size) == ToIndex(off) + size <= Len(payload)

getUint16(payload, off) == readU16BE(payload, ToIndex(off))

getUint32(payload, off) == readU32BEu(payload, ToIndex(off))

\* payload[off] of a typed array
Elem(payload, off) == IF off # NaN /\ off >= 0 /\ off < Len(payload) THEN At(payload, off) ELSE Undefined

\* a + b as JS numbers
Plus(a, b) == IF a \in {NaN, Undefined} \/ b \in {NaN, Undefined} THEN NaN ELSE a + b

\* payload.subarray(begin, end): a NaN bound is 0, both bounds are clamped to the array
subarray(payload, begin, end) ==
  LET n == Len(payload)
      b0 == IF begin = NaN THEN 0 ELSE begin
      e0 == IF end = NaN THEN 0 ELSE end
      b == IF b0 > n THEN n ELSE b0
      e == IF e0 > n THEN n ELSE e0
  IN  IF e <= b THEN <<>> ELSE Sub(payload, b, e)

MapIndex(m, k) == { i \in 1..Len(m) : m[i].k = k }

\* map.set that keeps the value a key already has
MapSetFirstWins(m, k, v) ==
  IF MapIndex(m, k) = {} THEN Append(m, [k |-> k, v |-> v]) ELSE m

\* map.set(k, v): an existing key keeps its place
MapSet(m, k, v) ==
  IF MapIndex(m, k) = {} THEN Append(m, [k |-> k, v |-> v])
  ELSE [m EXCEPT ![CHOOSE i \in MapIndex(m, k) : TRUE].v = v]

\* map.get(k)
MapGet(m, k) ==
  IF MapIndex(m, k) = {} THEN Undefined ELSE m[CHOOSE i \in MapIndex(m, k) : TRUE].v

VW == 512
VH == 512
ioGridX == 64
ioGridY == 64

Rect(x, y, w, h) == [x |-> x, y |-> y, w |-> w, h |-> h]

\* the addRect calls of buildTruthTable, in order: UI rectangle and CMD code
UIRects ==
  << [rect |-> Rect(90, 420, 52, 52), cmd |-> 1],
     [rect |-> Rect(90, 472, 52, 52), cmd |-> 2],
     [rect |-> Rect(38, 472, 52, 52), cmd |-> 3],
     [rect |-> Rect(142, 472, 52, 52), cmd |-> 4],
     [rect |-> Rect(360, 420, 132, 52), cmd |-> 5],
     [rect |-> Rect(360, 472, 132, 52), cmd |-> 6],
     [rect |-> Rect(360, 524, 132, 52), cmd |-> 7],
     [rect |-> Rect(360, 576, 132, 52), cmd |-> 8],
     [rect |-> Rect(360, 628, 132, 52), cmd |-> 9] >>

\* the key with regionId written low byte first
packKeyLittleEndian(modeBits, touchType, regionId, gestureId, timeBucket) ==
  << modeBits % 256, touchType % 256, regionId % 256, (regionId \div 256) % 256,
     gestureId % 256, timeBucket % 256 >>

packKey(modeBits, touchType, regionId, gestureId, timeBucket) ==
  << modeBits % 256, touchType % 256, (regionId \div 256) % 256, regionId % 256,
     gestureId % 256, timeBucket % 256 >>

\* Math.floor(a / (vw / grid)) for a >= 0 and a cell size that divides exactly
FloorCell(a, vw, grid) == (a * grid) \div vw

rectToRegionIds(rect, vw, vh) ==
  LET x0 == FloorCell(rect.x, vw, ioGridX)
      x1 == FloorCell(rect.x + rect.w - 1, vw, ioGridX)
      y0 == FloorCell(rect.y, vh, ioGridY)
      y1 == FloorCell(rect.y + rect.h - 1, vh, ioGridY)
      w == x1 - x0 + 1
      h == y1 - y0 + 1
      cells == [i \in 1..(w * h) |-> [gx |-> x0 + ((i - 1) % w), gy |-> y0 + ((i - 1) \div w)]]
      inGrid(c) == ~(c.gx < 0 \/ c.gy < 0 \/ c.gx >= ioGridX \/ c.gy >= ioGridY)
      kept == SelectSeq(cells, inGrid)
  IN  [i \in 1..Len(kept) |-> kept[i].gx + (kept[i].gy * ioGridX)]

\* addRect: one entry per region id of the rectangle
addRect(rect, cmd, vw, vh) ==
  LET ids == rectToRegionIds(rect, vw, vh)
  IN  [i \in 1..Len(ids) |-> [key |-> packKey(0, 1, ids[i], 0, 0), cmd |-> cmd]]

RECURSIVE AllEntries(_, _, _, _)
AllEntries(rects, i, vw, vh) ==
  IF i > Len(rects) THEN <<>>
  ELSE addRect(rects[i].rect, rects[i].cmd, vw, vh) \o AllEntries(rects, i + 1, vw, vh)

\* for(const e of entries) map.set(keyToStr(e.key), e.cmd), over entries lo..hi in
\* order: the first half, then the second half on the map the first half left
RECURSIVE EntriesToMap(_, _, _, _)
EntriesToMap(entries, lo, hi, map) ==
  IF lo > hi THEN map
  ELSE IF lo = hi THEN MapSet(map, entries[lo].key, entries[lo].cmd)
  ELSE LET mid == (lo + hi) \div 2
       IN  Only({ EntriesToMap(entries, mid + 1, hi, m) : m \in {EntriesToMap(entries, lo, mid, map)} })

\* one record: keyLen 6, the key's code units & 255, the command as u16
TruthRecord(e) == <<6>> \o [j \in 1..6 |-> e.k[j] % 256] \o U16Bytes(e.v)

\* the records of the map in iteration order, 9 bytes each
TruthRecords(map) ==
  [p \in 1..(9 * Len(map)) |-> TruthRecord(map[((p - 1) \div 9) + 1])[((p - 1) % 9) + 1]]

\* buildTruthTable with the rectangle list made explicit
buildTruthTableOf(rects, vw, vh) ==
  Only({ [payload |-> LenBytes(Len(map)) \o TruthRecords(map), recordCount |-> Len(map)] :
         map \in {Only({ EntriesToMap(es, 1, Len(es), <<>>) : es \in {AllEntries(rects, 1, vw, vh)} })} })

buildTruthTable(vw, vh) == buildTruthTableOf(UIRects, vw, vh)

Min(a, b) == IF a < b THEN a ELSE b

\* one pass of the loop body of decodeTruthTable on st = [ok, off, out]
TruthIter(payload, st) ==
  IF ~st.ok THEN st
  ELSE LET keyLen == Elem(payload, st.off)
           off1 == Plus(st.off, 1)
           off2 == Plus(off1, keyLen)
           k == subarray(payload, off1, off2)
       IN  IF ~InView(payload, off2, 2) THEN [ok |-> FALSE, off |-> off2, out |-> st.out]
           ELSE [ok |-> TRUE, off |-> Plus(off2, 2), out |-> MapSet(st.out, k, getUint16(payload, off2))]

\* count passes of the loop body, in order
RECURSIVE TruthIters(_, _, _)
TruthIters(payload, st, count) ==
  IF count <= 0 \/ ~st.ok THEN st
  ELSE IF count = 1 THEN TruthIter(payload, st)
  ELSE Only({ TruthIters(payload, t, count - (count \div 2)) :
              t \in {TruthIters(payload, st, count \div 2)} })

\* A pass reads at least 3 bytes past off or throws, unless off is NaN; with off NaN
\* every pass repeats the one before.  So passes beyond Len(payload) + 2 change nothing.
decodeTruthTable(payload) ==
  IF ~InView(payload, 0, 4) THEN RangeError
  ELSE LET n == getUint32(payload, 0)
           passes == IF n[1] > 0 \/ n[2] > Len(payload) + 2 THEN Len(payload) + 2 ELSE n[2]
           r == TruthIters(payload, [ok |-> TRUE, off |-> 4, out |-> <<>>], passes)
       IN  IF r.ok THEN Val(r.out) ELSE RangeError

buildHeader(osId, entryPoint, fbWidth, fbHeight, targetFPS, featureFlags) ==
  U32Bytes(entryPoint) \o U16Bytes(fbWidth) \o U16Bytes(fbHeight) \o U16Bytes(targetFPS)
    \o U16Bytes(ioGridX) \o U16Bytes(ioGridY) \o U32Bytes(featureFlags) \o <<0, 0, 0, 0>>
    \o <<0, 0>> \o <<0, 0>> \o U32Bytes(osId)

parseHeader(payload) ==
  IF ~InView(payload, 14, 4) THEN RangeError
  ELSE Val([ entryPoint |-> getUint32(payload, 0),
             fbWidth |-> getUint16(payload, 4),
             fbHeight |-> getUint16(payload, 6),
             targetFPS |-> getUint16(payload, 8),
             ioGX |-> getUint16(payload, 10),
             ioGY |-> getUint16(payload, 12),
             featureFlags |-> getUint32(payload, 14),
             gradPref |-> Elem(payload, 22),
             gradMin |-> Elem(payload, 23),
             osId |-> IF Len(payload) >= 30 THEN getUint32(payload, 26) ELSE <<0, 0>> ])

\* TextEncoder / TextDecoder on text below U+0080: one byte per code unit, same value;
\* a byte that starts no valid sequence decodes to U+FFFD
encodeText(str) == [i \in 1..Len(str) |-> str[i] % 128]

decodeText(bytes) == [i \in 1..Len(bytes) |-> IF bytes[i] < 128 THEN bytes[i] ELSE 65533]

RECURSIVE StringParts(_, _)
StringParts(entries, i) ==
  IF i > Len(entries) THEN <<>>
  ELSE LET kb == encodeText(entries[i].k)
           vb == encodeText(entries[i].v)
       IN  U16Bytes(Len(kb)) \o kb \o U16Bytes(Len(vb)) \o vb \o StringParts(entries, i + 1)

buildStringTable(entries) == U16Bytes(Len(entries)) \o StringParts(entries, 1)

\* one pass of the loop body of decodeStringTable on st = [ok, off, out]
StringIter(payload, st) ==
  IF ~st.ok THEN st
  ELSE IF ~InView(payload, st.off, 2) THEN [st EXCEPT !.ok = FALSE]
  ELSE LET kLen == getUint16(payload, st.off)
           offK == st.off + 2
           key == decodeText(subarray(payload, offK, offK + kLen))
           offV == offK + kLen
       IN  IF ~InView(payload, offV, 2) THEN [st EXCEPT !.ok = FALSE]
           ELSE LET vLen == getUint16(payload, offV)
                    val == decodeText(subarray(payload, offV + 2, offV + 2 + vLen))
                IN  [ok |-> TRUE, off |-> offV + 2 + vLen, out |-> MapSet(st.out, key, val)]

RECURSIVE StringIters(_, _, _)
StringIters(payload, st, count) ==
  IF count <= 0 \/ ~st.ok THEN st
  ELSE IF count = 1 THEN StringIter(payload, st)
  ELSE Only({ StringIters(payload, t, count - (count \div 2)) :
              t \in {StringIters(payload, st, count \div 2)} })

decodeStringTable(payload) ==
  IF ~InView(payload, 0, 2) THEN RangeError
  ELSE LET r == StringIters(payload, [ok |-> TRUE, off |-> 2, out |-> <<>>], getUint16(payload, 0))
       IN  IF r.ok THEN Val(r.out) ELSE RangeError

\* screenToVirtual on a window [W, H, DPR] whose scale s = min(W/V.w, H/V.h) is a whole
\* number: the virtual point is (xn/s, yn/s)
screenToVirtual(px, py, win) ==
  LET sc == Min(win.W \div VW, win.H \div VH)
      ox == (win.W - (VW * sc)) \div 2
      oy == (win.H - (VH * sc)) \div 2
      xn == (px * win.DPR) - ox
      yn == (py * win.DPR) - oy
  IN  [xn |-> xn, yn |-> yn, s |-> sc,
       inside |-> xn >= 0 /\ yn >= 0 /\ xn < VW * sc /\ yn < VH * sc]

Max(a, b) == IF a > b THEN a ELSE b

\* the region id counted down the columns: gy + gx*ioGridY
quantizeRegionIdColumnMajor(v) ==
  LET gx == Max(0, Min(ioGridX - 1, (v.xn * ioGridX) \div (VW * v.s)))
      gy == Max(0, Min(ioGridY - 1, (v.yn * ioGridY) \div (VH * v.s)))
  IN  (gy + (gx * ioGridY)) % 65536

quantizeRegionId(v) ==
  LET gx == Max(0, Min(ioGridX - 1, (v.xn * ioGridX) \div (VW * v.s)))
      gy == Max(0, Min(ioGridY - 1, (v.yn * ioGridY) \div (VH * v.s)))
  IN  (gx + (gy * ioGridX)) % 65536

\* the key lookupCmdFromPoint builds for the virtual point v
lookupKey(v) == packKey(0, 1, quantizeRegionId(v), 0, 0)

\* the lookup without the test of v.inside of line 351
lookupCmdFromPointClamped(truth, px, py, win) ==
  LET got == MapGet(truth, lookupKey(screenToVirtual(px, py, win)))
  IN  IF got = Undefined THEN 0 ELSE got

lookupCmdFromPoint(truth, px, py, win) ==
  LET v == screenToVirtual(px, py, win)
  IN  IF ~v.inside THEN 0
      ELSE LET got == MapGet(truth, lookupKey(v))
           IN  IF got = Undefined THEN 0 ELSE got

(***************************************************************************)
(* app.js: the host page.  host holds the module-level variables; the      *)
(* interpreter instance the host holds is vm (None for null).              *)
(* loadCartridge is an async function: it runs to its await of the bitmap  *)
(* decoder (LoadStart), and the rest runs when that promise settles        *)
(* (LoadFinish); other events may come in between.                         *)
(***************************************************************************)
BT_HEADER == 1
BT_BYTECODE == 2
BT_TRUTH_TABLE == 3
BT_STRING_TABLE == 5

StViewOnly == "view-only (G3)"

\* the rejection of createImageBitmap for bytes the browser cannot decode
BitmapError == "InvalidStateError: the source image could not be decoded"

NoBytes == [set |-> FALSE]

Bytes(u8) == [set |-> TRUE, u8 |-> u8]

\* the module-level state when app.js has been evaluated, before boot() has built anything
HostStart(win) ==
  [ win |-> win,
    cartridgeBytes |-> NoBytes,
    baseBitmap |-> NoBytes,
    truth |-> <<>>,
    strings |-> <<>>,
    gradientUsed |-> 3,
    frameTick |-> 0,
    lastCmd |-> 0,
    status |-> "",
    looping |-> FALSE,
    booted |-> FALSE,
    pending |-> <<>>,
    loads |-> 0,
    thrown |-> {},
    hostCmd |-> [cmd |-> 0, tick |-> 0] ]

\* lines 396-402: the payload of the last block of the type, or null
RECURSIVE LastOfType(_, _, _)
LastOfType(blocks, type, i) ==
  IF i = 0 THEN NoBytes
  ELSE IF blocks[i].blockType = type THEN Bytes(blocks[i].payload)
  ELSE LastOfType(blocks, type, i - 1)

\* loadCartridge(bytes) up to its first await: what it assigns (gradientUsed; truth
\* and strings where setTruth and setStrings say so) and how the call goes on: to the
\* view-only end, to the start of the interpreter, or out by an exception
loadSync(bytes) ==
  LET out(go, grad, setTruth, tt, setStrings, st, err, osId, bytecode) ==
        [go |-> go, gradientUsed |-> grad, setTruth |-> setTruth, truth |-> tt,
         setStrings |-> setStrings, strings |-> st, err |-> err, osId |-> osId, bytecode |-> bytecode]
      viewOnly == out("view-only", 3, FALSE, <<>>, FALSE, <<>>, "", <<0, 0>>, <<>>)
  IN  Only({
        IF ~parsed0.ok THEN viewOnly
        ELSE LET headerP == LastOfType(parsed0.blocks, BT_HEADER, Len(parsed0.blocks))
                 bytecodeP == LastOfType(parsed0.blocks, BT_BYTECODE, Len(parsed0.blocks))
                 truthP == LastOfType(parsed0.blocks, BT_TRUTH_TABLE, Len(parsed0.blocks))
                 strP == LastOfType(parsed0.blocks, BT_STRING_TABLE, Len(parsed0.blocks))
             IN  IF ~headerP.set \/ ~bytecodeP.set THEN viewOnly
                 ELSE Only({
                        IF ~header.ok THEN out("throw", 0, FALSE, <<>>, FALSE, <<>>, header.err, <<0, 0>>, <<>>)
                        ELSE IF ~tt.ok THEN out("throw", 0, FALSE, <<>>, FALSE, <<>>, tt.err, <<0, 0>>, <<>>)
                        ELSE IF ~st.ok THEN out("throw", 0, TRUE, tt.val, FALSE, <<>>, st.err, <<0, 0>>, <<>>)
                        ELSE out("run", 0, TRUE, tt.val, TRUE, st.val, "", header.val.osId, bytecodeP.u8)
                        : header \in {parseHeader(headerP.u8)},
                          tt \in {IF truthP.set THEN decodeTruthTable(truthP.u8) ELSE Val(<<>>)},
                          st \in {IF strP.set THEN decodeStringTable(strP.u8) ELSE Val(<<>>)} })
        : parsed0 \in {parseCartridge(bytes, MaxTotalDefault)} })

\* lines 422-437: the new instance, made with the tables the page holds at that
\* moment, and its one-time init frame
InitFrame(osId, bytecode, truthTable, strings) ==
  LET m0 == PPUVM([entryPoint |-> 0, osId |-> osId], bytecode, truthTable, strings)
      r == runFrame(setIO([m0 EXCEPT !.pc = 0], 0, <<0, 0>>), 10000)
  IN  [r EXCEPT !.m.pc = 2]

Remove(seq, i) == SubSeq(seq, 1, i - 1) \o SubSeq(seq, i + 1, Len(seq))

\* text as its UTF-16 code units
TitleKey == <<116, 105, 116, 108, 101>>

TitleText == <<80, 80, 85, 32, 83, 110, 97, 107, 101>>

HelpKey == <<104, 101, 108, 112>>

HelpText ==
  <<68, 45, 80, 97, 100, 58, 32, 109, 111, 118, 101, 46, 32, 83, 116, 97, 114, 116,
  58, 32, 112, 97, 117, 115, 101, 46, 32, 82, 101, 115, 116, 97, 114, 116, 32, 114,
  101, 115, 101, 116, 115, 46, 32, 68, 111, 119, 110, 108, 111, 97, 100, 32, 115, 97,
  118, 101, 115, 32, 99, 97, 114, 116, 114, 105, 100, 103, 101, 46, 32, 67, 97, 112,
  116, 117, 114, 101, 32, 103, 114, 97, 98, 115, 32, 102, 114, 97, 109, 101, 46>>

\* buildCartridge on the bytes the canvas encoder returned
buildCartridge(jpegU8) ==
  LET headerPayload == buildHeader(OsSnak, <<0, 0>>, VW, VH, 30, <<0, 1>>)
      ttPayload == buildTruthTable(VW, VH).payload
      bytecode == <<64, 1, 64, 2, 1>>
      strPayload == buildStringTable(<<[k |-> TitleKey, v |-> TitleText], [k |-> HelpKey, v |-> HelpText]>>)
      blocks == << buildApp15Block(BT_HEADER, headerPayload, 1, TRUE, FALSE),
                   buildApp15Block(BT_TRUTH_TABLE, ttPayload, 1, TRUE, FALSE),
                   buildApp15Block(BT_BYTECODE, bytecode, 1, TRUE, FALSE),
                   buildApp15Block(BT_STRING_TABLE, strPayload, 1, TRUE, FALSE) >>
  IN  injectBeforeSOS(jpegU8, blocks)

\* what canvas.toBlob(res, 'image/jpeg') may hand back: a JPEG, or the PNG an encoder
\* without JPEG support falls back to
CanvasEncodings == { ImgPlain, <<137, 80, 78, 71>> }

\* a cartridge file: the blocks of descs spliced into a plain JPEG
Cart(descs) ==
  injectBeforeSOS(ImgPlain,
    [i \in 1..Len(descs) |-> buildApp15Block(descs[i].blockType, descs[i].payload,
                                              descs[i].version, descs[i].crc, descs[i].compressed)]).out

MaxLoads == 2
MaxHostTicks == 2

FileHeader == buildHeader(OsSnak, <<0, 0>>, VW, VH, 30, <<0, 1>>)

\* a truth table of a cartridge file: five cells of the top row, three of them
\* carrying the host commands
FileTruth ==
  buildTruthTableOf(<< [rect |-> Rect(0, 0, 8, 8), cmd |-> 7], [rect |-> Rect(8, 0, 8, 8), cmd |-> 1],
                       [rect |-> Rect(16, 0, 8, 8), cmd |-> 9], [rect |-> Rect(24, 0, 8, 8), cmd |-> 8],
                       [rect |-> Rect(32, 0, 8, 8), cmd |-> 5] >>, VW, VH).payload

Damage(u8, i) == [u8 EXCEPT ![i] = (@ + 1) % 256]

FileGood ==
  Cart(<< Desc(BT_HEADER, FileHeader, 1, TRUE, FALSE), Desc(BT_BYTECODE, ProgBuiltin, 1, TRUE, FALSE),
          Desc(BT_TRUTH_TABLE, FileTruth, 1, TRUE, FALSE) >>)

\* integrity: one payload byte of the bytecode block changed under its CRC
FileCorrupt == Damage(FileGood, 2 + (4 + 12 + Len(FileHeader) + 4) + (4 + 12) + 1)

\* structural: not a marker where one is due
FileNotMarker == ImgNotMarker

\* completeness: no bytecode block
FileNoBytecode == Cart(<< Desc(BT_HEADER, FileHeader, 1, TRUE, FALSE) >>)

\* schema: a Header payload shorter than the fixed header record
FileShortHeader ==
  Cart(<< Desc(BT_HEADER, Sub(FileHeader, 0, 4), 1, TRUE, FALSE), Desc(BT_BYTECODE, ProgBuiltin, 1, TRUE, FALSE) >>)

HostFiles == { FileGood, FileCorrupt, FileNotMarker, FileNoBytecode, FileShortHeader }

\* buildCartridge and the synchronous part of loadCartridge on the inputs of the
\* model, each computed once
Built == [jpegU8 \in CanvasEncodings |-> buildCartridge(jpegU8)]

Cartridges == HostFiles \cup { Built[jpegU8].out : jpegU8 \in { j \in CanvasEncodings : Built[j].ok } }

Loaded == [bytes \in Cartridges |-> loadSync(bytes)]

\* createImageBitmap(blob): the picture decoded from a file, kept as the checksum of
\* the file it was decoded from
Bitmaps == [bytes \in Cartridges |-> [set |-> TRUE, of |-> crc32(bytes)]]

\* a call of loadCartridge(bytes) begins; boot tells whether boot() made it.  An
\* exception leaves the call; in boot() it reaches the catch of line 583
StartLoad(h, bytes, boot) ==
  Only({ LET h1 == [h EXCEPT !.gradientUsed = r.gradientUsed,
                             !.truth = IF r.setTruth THEN r.truth ELSE @,
                             !.strings = IF r.setStrings THEN r.strings ELSE @,
                             !.status = "loading cartridge"]
         IN  IF r.go = "throw"
               THEN [h1 EXCEPT !.thrown = @ \cup {[at |-> "loadCartridge", err |-> r.err]},
                               !.status = IF boot THEN "error" ELSE @]
             ELSE [h1 EXCEPT !.pending =
                     Append(@, [go |-> r.go, boot |-> boot, osId |-> r.osId, bytecode |-> r.bytecode,
                                bitmap |-> Bitmaps[bytes]])]
         : r \in {Loaded[bytes]} })

Win512 == [W |-> 512, H |-> 512, DPR |-> 1]

\* client points: cells of FileTruth (commands 7, 1, 9), btnUp of the built-in table,
\* a point right of the canvas
HostPoints == { <<4, 4>>, <<12, 4>>, <<20, 4>>, <<100, 430>>, <<600, 4>> }

\* m[e.key] of the keydown handler for Enter and for a key m lacks
KeyCmds == { 5, Undefined }

InitHost ==
  /\ host = HostStart(Win512)
  /\ calc = None
  /\ vm = None
  /\ obs = None
  /\ frames = 0
  /\ failed = FALSE
  /\ CodecAbsent

\* boot(): buildCartridge, then loadCartridge up to its await
Boot(jpegU8) ==
  /\ ~host.booted
  /\ \E r \in {Built[jpegU8]} :
       host' = IF ~r.ok
                 THEN [host EXCEPT !.booted = TRUE, !.status = "error",
                                    !.thrown = @ \cup {[at |-> "buildCartridge", err |-> r.err]}]
               ELSE StartLoad([host EXCEPT !.booted = TRUE, !.cartridgeBytes = Bytes(r.out)], r.out, TRUE)
  /\ UNCHANGED <<vmVars, codecVars, calc>>

\* the change handler of the file input
FileChosen(bytes) ==
  /\ host.loads < MaxLoads
  /\ host' = StartLoad([host EXCEPT !.loads = @ + 1, !.cartridgeBytes = Bytes(bytes)], bytes, FALSE)
  /\ UNCHANGED <<vmVars, codecVars, calc>>

\* the bitmap decoder settles for the i-th call in flight and the call runs to its end
LoadFinish(i, decodable) ==
  /\ i \in DOMAIN host.pending
  /\ LET p == host.pending[i]
         h0 == [host EXCEPT !.pending = Remove(@, i)]
     IN  IF ~decodable
           THEN /\ host' = [h0 EXCEPT !.thrown = @ \cup {[at |-> "loadCartridge", err |-> BitmapError]},
                                      !.status = IF p.boot THEN "error" ELSE @]
                /\ UNCHANGED vmVars
         ELSE IF p.go = "view-only"
           THEN /\ host' = [h0 EXCEPT !.baseBitmap = p.bitmap, !.status = StViewOnly,
                                      !.looping = @ \/ p.boot]
                /\ UNCHANGED vmVars
         ELSE \E r \in {InitFrame(p.osId, p.bytecode, host.truth, host.strings)} :
                /\ host' = [h0 EXCEPT !.baseBitmap = p.bitmap, !.status = "running",
                                      !.looping = @ \/ p.boot]
                /\ vm' = r.m
                /\ obs' = [done |-> TRUE, budget |-> 10000, ret |-> r.cycles, ev |-> r.ev]
                /\ failed' = \E j \in 1..Len(r.ev) : r.ev[j].e \in {"badop", "badsys"}
                /\ frames' = frames + 1
  /\ UNCHANGED <<codecVars, calc>>

\* one due tick of the loop of startLoop: frameTick, then step(frameTick)
Step ==
  /\ host.looping
  /\ host.frameTick < MaxHostTicks
  /\ IF vm = None
       THEN /\ host' = [host EXCEPT !.frameTick = @ + 1]
            /\ UNCHANGED vmVars
     ELSE \E r \in {runFrame(setIO(vm, host.lastCmd, <<0, host.frameTick + 1>>), 10000)} :
            /\ host' = [host EXCEPT !.frameTick = @ + 1, !.lastCmd = 0]
            /\ vm' = r.m
            /\ obs' = [done |-> TRUE, budget |-> 10000, ret |-> r.cycles, ev |-> r.ev]
            /\ failed' = (failed \/ \E j \in 1..Len(r.ev) : r.ev[j].e \in {"badop", "badsys"})
            /\ frames' = frames + 1
  /\ UNCHANGED <<codecVars, calc>>

\* handleHostCommand: a download or the file dialog, nothing of the page's state;
\* hostCmd keeps the command handled last and the frameTick it was handled at
handleHostCommand(h, cmd) == [h EXCEPT !.hostCmd = [cmd |-> cmd, tick |-> h.frameTick]]

\* the handler without the return of line 558
pointerdownFallThrough(h, cmd) ==
  IF cmd = 0 THEN h
  ELSE IF cmd \in {7, 8, 9} THEN [handleHostCommand(h, cmd) EXCEPT !.lastCmd = cmd]
  ELSE [h EXCEPT !.lastCmd = cmd]

\* the pointerdown handler on the command the point resolved to
pointerdown(h, cmd) ==
  IF cmd = 0 THEN h
  ELSE IF cmd \in {7, 8, 9} THEN handleHostCommand(h, cmd)
  ELSE [h EXCEPT !.lastCmd = cmd]

PointerDown(px, py) ==
  /\ \E cmd \in {lookupCmdFromPoint(host.truth, px, py, host.win)} : host' = pointerdown(host, cmd)
  /\ UNCHANGED <<vmVars, codecVars, calc>>

\* the keydown handler
KeyDown(cmd) ==
  /\ host' = IF cmd = Undefined THEN host ELSE [host EXCEPT !.lastCmd = cmd]
  /\ UNCHANGED <<vmVars, codecVars, calc>>

HostNext ==
  \/ \E jpegU8 \in CanvasEncodings : Boot(jpegU8)
  \/ \E bytes \in HostFiles : FileChosen(bytes)
  \/ \E i \in 1..(MaxLoads + 1), decodable \in BOOLEAN : LoadFinish(i, decodable)
  \/ Step
  \/ \E pt \in HostPoints : PointerDown(pt[1], pt[2])
  \/ \E cmd \in KeyCmds : KeyDown(cmd)

SpecHost == InitHost /\ [][HostNext]_vars

(***************************************************************************)
(* ppujpeg.js: the two marker walks on one stream.  A stream is SOI and a   *)
(* few pieces; injectBeforeSOS (with no payload to add) and parseCartridge  *)
(* are both applied to it.                                                  *)
(***************************************************************************)
MaxPieces == 3

\* an APP0 segment, an APP15 segment holding a PPUJ block, EOI, SOS with its length,
\* a segment length below 2, a byte that is not 0xFF, a lone 0xFF, a fill byte
\* before a marker, a standalone RST0 marker
Pieces ==
  { <<255, 224, 0, 4, 170, 187>>, App15Segment(buildApp15Block(1, <<9>>, 1, TRUE, FALSE)),
    <<255, EOI>>, <<255, SOS, 0, 2>>, <<255, 224, 0, 1>>, <<0>>, <<255>>, <<255, 255, 224, 0, 2>>,
    <<255, 208>> }

HostIdle == host = None

InitWalk ==
  /\ calc = [op |-> "stream", u8 |-> <<255, SOI>>, pieces |-> 0]
  /\ HostIdle
  /\ CodecAbsent
  /\ VmAbsent

AddPiece(piece) ==
  /\ calc.op = "stream"
  /\ calc.pieces < MaxPieces
  /\ calc' = [calc EXCEPT !.u8 = @ \o piece, !.pieces = @ + 1]
  /\ UNCHANGED <<codecVars, vmVars, host>>

Walk ==
  /\ calc.op = "stream"
  /\ calc' = [op |-> "walked", u8 |-> calc.u8, pieces |-> calc.pieces,
              inject |-> injectBeforeSOS(calc.u8, <<>>),
              parse |-> parseCartridge(calc.u8, MaxTotalDefault)]
  /\ UNCHANGED <<codecVars, vmVars, host>>

WalkNext == (\E piece \in Pieces : AddPiece(piece)) \/ Walk

SpecWalk == InitWalk /\ [][WalkNext]_vars

\* C13: the two walks reject the same structure (EOI before SOS, no SOS, a segment
\* length below 2, a truncated marker or length, a byte that is not 0xFF where a
\* marker is due): parseCartridge returns no block list for a stream on which
\* injectBeforeSOS fails.
C13_WalksRejectAlike == calc.op = "walked" /\ ~calc.inject.ok => ~calc.parse.ok

(***************************************************************************)
(* app.js: the three schema decoders on a payload.  The payload starts as   *)
(* one a builder made, may be cut to a shorter length, and is decoded.      *)
(***************************************************************************)
SchemaTruth ==
  buildTruthTableOf(<< [rect |-> Rect(0, 0, 8, 8), cmd |-> 7], [rect |-> Rect(8, 0, 8, 8), cmd |-> 1] >>,
                    VW, VH).payload

\* {t: "PP", h: "x"}
SchemaStrings == buildStringTable(<< [k |-> <<116>>, v |-> <<80, 80>>], [k |-> <<104>>, v |-> <<120>>] >>)

SchemaPayloads ==
  { [kind |-> "header", u8 |-> FileHeader], [kind |-> "truth", u8 |-> SchemaTruth],
    [kind |-> "strings", u8 |-> SchemaStrings] }

decodeAs(kind, u8) ==
  IF kind = "header" THEN parseHeader(u8)
  ELSE IF kind = "truth" THEN decodeTruthTable(u8)
  ELSE decodeStringTable(u8)

InitSchema ==
  /\ \E pl \in SchemaPayloads : calc = [op |-> "payload", kind |-> pl.kind, u8 |-> pl.u8, layout |-> Len(pl.u8)]
  /\ HostIdle
  /\ CodecAbsent
  /\ VmAbsent

\* the payload arrives n bytes long, short of its layout
Cut(n) ==
  /\ calc.op = "payload"
  /\ Len(calc.u8) = calc.layout
  /\ n < calc.layout
  /\ calc' = [calc EXCEPT !.u8 = Sub(@, 0, n)]
  /\ UNCHANGED <<codecVars, vmVars, host>>

Decode ==
  /\ calc.op = "payload"
  /\ calc' = [op |-> "decoded", kind |-> calc.kind, u8 |-> calc.u8, layout |-> calc.layout,
              result |-> decodeAs(calc.kind, calc.u8)]
  /\ UNCHANGED <<codecVars, vmVars, host>>

SchemaNext == (\E n \in 0..(calc.layout - 1) : Cut(n)) \/ Decode

SpecSchema == InitSchema /\ [][SchemaNext]_vars

\* C14: parseHeader, decodeTruthTable and decodeStringTable each fail on a payload
\* that is shorter than the layout it declares (the fixed header record; the record
\* count times the record size; the entries with their length prefixes).
C14_ShortPayloadRejected ==
  calc.op = "decoded" /\ Len(calc.u8) < calc.layout => ~calc.result.ok

(***************************************************************************)
(* app.js: the truth table from builder to resolver.  buildTruthTable runs  *)
(* on a canvas size, its payload is decoded as the loader does, and touch   *)
(* points are resolved against the decoded map.                             *)
(***************************************************************************)
Canvases == { <<512, 512>>, <<1024, 512>>, <<512, 1024>>, <<1024, 1024>> }

\* buildTruthTable and decodeTruthTable on each canvas, computed once
Tables == [c \in Canvases |-> buildTruthTable(c[1], c[2])]

Truths == [c \in Canvases |-> decodeTruthTable(Tables[c].payload)]

\* a window twice the canvas wide and three times as high: scale 2, the picture
\* centred 256 device pixels down
Win1024 == [W |-> 1024, H |-> 1536, DPR |-> 1]

Windows == { Win512, Win1024 }

\* virtual coordinates at and next to the edges of the UI rectangles and of the canvas
SampleX == { -1, 0, 37, 38, 89, 90, 141, 142, 193, 194, 359, 360, 400, 491, 492, 511, 512 }

SampleY == { -1, 0, 419, 420, 471, 472, 511, 512, 523, 524 }

\* the client point that a window shows the virtual point (x, y) at
ClientOf(x, y, win) ==
  LET sc == Min(win.W \div VW, win.H \div VH)
  IN  << ((x * sc) + ((win.W - (VW * sc)) \div 2)) \div win.DPR,
         ((y * sc) + ((win.H - (VH * sc)) \div 2)) \div win.DPR >>

InitTruth ==
  /\ \E c \in Canvases : calc = [op |-> "canvas", vw |-> c[1], vh |-> c[2]]
  /\ HostIdle
  /\ CodecAbsent
  /\ VmAbsent

\* buildTruthTable(vw, vh), and decodeTruthTable on its payload
BuildTable ==
  /\ calc.op = "canvas"
  /\ calc' = [op |-> "built", vw |-> calc.vw, vh |-> calc.vh,
              table |-> Tables[<<calc.vw, calc.vh>>], truth |-> Truths[<<calc.vw, calc.vh>>]]
  /\ UNCHANGED <<codecVars, vmVars, host>>

\* a touch at the client point (px, py) in the window win
Touch(px, py, win) ==
  /\ calc.op = "built"
  /\ calc.truth.ok
  /\ calc' = [op |-> "touched", vw |-> calc.vw, vh |-> calc.vh, table |-> calc.table, truth |-> calc.truth,
              v |-> screenToVirtual(px, py, win),
              key |-> IF screenToVirtual(px, py, win).inside
                        THEN lookupKey(screenToVirtual(px, py, win)) ELSE <<>>,
              cmd |-> lookupCmdFromPoint(calc.truth.val, px, py, win)]
  /\ UNCHANGED <<codecVars, vmVars, host>>

TruthNext ==
  \/ BuildTable
  \/ \E x \in SampleX, y \in SampleY, win \in Windows : Touch(ClientOf(x, y, win)[1], ClientOf(x, y, win)[2], win)

SpecTruth == InitTruth /\ [][TruthNext]_vars

(***************************************************************************)
(* Properties of the truth table                                           *)
(***************************************************************************)
\* the i-th record of a truth-table payload: key bytes and command
RecordKey(payload, i) == Sub(payload, 4 + (9 * (i - 1)) + 1, 4 + (9 * (i - 1)) + 7)

RecordCmd(payload, i) == (payload[4 + (9 * i) - 1] * 256) + payload[4 + (9 * i)]

\* the grid cell (gx, gy) of a canvas vw x vh has a unit square in common with rect
CellCovered(rect, gx, gy, vw, vh) ==
  LET cw == vw \div ioGridX
      ch == vh \div ioGridY
  IN  /\ rect.x < (gx + 1) * cw /\ rect.x + rect.w > gx * cw
      /\ rect.y < (gy + 1) * ch /\ rect.y + rect.h > gy * ch

Covering(gx, gy, vw, vh) == { k \in 1..Len(UIRects) : CellCovered(UIRects[k].rect, gx, gy, vw, vh) }

\* the command of the rectangle added last among those covering the cell, 0 for none
CellCmd(gx, gy, vw, vh) ==
  LET ks == Covering(gx, gy, vw, vh)
  IN  IF ks = {} THEN 0 ELSE UIRects[CHOOSE k \in ks : \A j \in ks : j <= k].cmd

CoveredCells(vw, vh) == { c \in (0..(ioGridX - 1)) \X (0..(ioGridY - 1)) : Covering(c[1], c[2], vw, vh) # {} }

RegionOfKey(key) == (key[3] * 256) + key[4]

\* C15: buildTruthTable emits each 6-byte key once, the record count is the number of
\* distinct keys (the covered grid cells), the command of a cell covered by several
\* rectangles is that of the rectangle added last, and decodeTruthTable on the
\* payload gives exactly this mapping.
C15_BuildLastWriteWins ==
  calc.op = "built" =>
    LET pl == calc.table.payload
        n == calc.table.recordCount
    IN  /\ Len(pl) = 4 + (9 * n)
        /\ Sub(pl, 0, 4) = LenBytes(n)
        /\ n = Cardinality(CoveredCells(calc.vw, calc.vh))
        /\ \A i, j \in 1..n : RecordKey(pl, i) = RecordKey(pl, j) => i = j
        /\ \A i \in 1..n :
             /\ pl[4 + (9 * (i - 1)) + 1] = 6
             /\ RecordCmd(pl, i) = CellCmd(RegionOfKey(RecordKey(pl, i)) % ioGridX,
                                           RegionOfKey(RecordKey(pl, i)) \div ioGridX, calc.vw, calc.vh)
        /\ calc.truth.ok
        /\ Len(calc.truth.val) = n
        /\ \A i \in 1..n : MapGet(calc.truth.val, RecordKey(pl, i)) = RecordCmd(pl, i)

\* a table was built in which two cells lie under two rectangles each
C15_Witness ==
  /\ calc.op = "built"
  /\ calc.table.recordCount > 0
  /\ \E c \in CoveredCells(calc.vw, calc.vh) : Cardinality(Covering(c[1], c[2], calc.vw, calc.vh)) > 1

\* the grid cell of the 512 x 512 canvas that holds the virtual point v
CellX(v) == v.xn \div (v.s * (VW \div ioGridX))

CellY(v) == v.yn \div (v.s * (VH \div ioGridY))

EmittedKeys == { RecordKey(calc.table.payload, i) : i \in 1..calc.table.recordCount }

\* C16 as claimed: every key buildTruthTable emits, and the key lookupCmdFromPoint
\* builds for a touch, has modeBits, touchType, gestureId and timeBucket equal to 0.
C16_OtherKeyFieldsZero ==
  /\ calc.op = "built" =>
       \A key \in EmittedKeys : key[1] = 0 /\ key[2] = 0 /\ key[5] = 0 /\ key[6] = 0
  /\ (calc.op = "touched" /\ calc.v.inside) =>
       calc.key[1] = 0 /\ calc.key[2] = 0 /\ calc.key[5] = 0 /\ calc.key[6] = 0

\* C16: every key buildTruthTable emits, and the key lookupCmdFromPoint builds for a
\* touch, is 6 bytes with modeBits, gestureId and timeBucket 0 and touchType 1; only
\* regionId varies, and the key of a touch carries the id gx + gy*64 of the touched
\* cell, high byte first.
C16_KeyFieldsFixed ==
  /\ calc.op = "built" =>
       \A key \in EmittedKeys :
         /\ Len(key) = 6 /\ key[1] = 0 /\ key[2] = 1 /\ key[5] = 0 /\ key[6] = 0
         /\ RegionOfKey(key) < ioGridX * ioGridY
  /\ (calc.op = "touched" /\ calc.v.inside) =>
       /\ Len(calc.key) = 6
       /\ calc.key[1] = 0 /\ calc.key[2] = 1 /\ calc.key[5] = 0 /\ calc.key[6] = 0
       /\ RegionOfKey(calc.key) = CellX(calc.v) + (CellY(calc.v) * ioGridX)

\* a touch inside the canvas whose region id needs both bytes
C16_Witness ==
  /\ calc.op = "touched"
  /\ calc.v.inside
  /\ calc.key[3] > 0
  /\ calc.key[4] > 0
  /\ calc.key \in EmittedKeys

\* the virtual point v lies in rect; lies at most one unit away from it
InRect(v, rect) ==
  /\ rect.x * v.s <= v.xn /\ v.xn < (rect.x + rect.w) * v.s
  /\ rect.y * v.s <= v.yn /\ v.yn < (rect.y + rect.h) * v.s

NearRect(v, rect) ==
  /\ (rect.x - 1) * v.s <= v.xn /\ v.xn < (rect.x + rect.w + 1) * v.s
  /\ (rect.y - 1) * v.s <= v.yn /\ v.yn < (rect.y + rect.h + 1) * v.s

InSomeRect(v) == \E k \in 1..Len(UIRects) : InRect(v, UIRects[k].rect)

OneUnitOutside(v) == ~InSomeRect(v) /\ \E k \in 1..Len(UIRects) : NearRect(v, UIRects[k].rect)

\* a touch resolved against the table built for the 512 x 512 canvas
TouchedOnCanvas == calc.op = "touched" /\ calc.vw = VW /\ calc.vh = VH

\* C17: with the table built over the 64 x 64 grid of the 512 x 512 canvas, a touch
\* inside the canvas resolves to the command of its grid cell (the rectangle added
\* last among those covering the cell, none giving 0), and a touch on a point of a
\* rectangle inside the canvas resolves to a command other than 0.
C17_BuildResolveAgree ==
  (TouchedOnCanvas /\ calc.v.inside) =>
    /\ calc.cmd = CellCmd(CellX(calc.v), CellY(calc.v), VW, VH)
    /\ InSomeRect(calc.v) => calc.cmd # 0

\* a touch on a point of a rectangle whose cell a later rectangle covers too
C17_Witness ==
  /\ TouchedOnCanvas
  /\ calc.v.inside
  /\ InSomeRect(calc.v)
  /\ Cardinality(Covering(CellX(calc.v), CellY(calc.v), VW, VH)) > 1
  /\ calc.cmd # 0

\* C18 as claimed: a touch inside the canvas one unit outside all rectangles resolves
\* to 0, and so does a touch outside the canvas.
C18_OneUnitOutsideIsNoCommand ==
  (TouchedOnCanvas /\ (~calc.v.inside \/ OneUnitOutside(calc.v))) => calc.cmd = 0

\* C18: a touch inside the canvas whose grid cell no rectangle covers resolves to 0,
\* and so does a touch outside the canvas.
C18_UncoveredCellIsNoCommand ==
  (TouchedOnCanvas /\ (~calc.v.inside \/ Covering(CellX(calc.v), CellY(calc.v), VW, VH) = {})) =>
    calc.cmd = 0

\* a touch one unit outside the rectangles in a cell none covers; the model also
\* reaches touches outside the canvas below a rectangle that leaves it
C18_Witness ==
  /\ TouchedOnCanvas
  /\ calc.v.inside
  /\ OneUnitOutside(calc.v)
  /\ Covering(CellX(calc.v), CellY(calc.v), VW, VH) = {}
  /\ calc.cmd = 0

(***************************************************************************)
(* vm.js: the apple.  Two ways to a call of spawnApple: the game played     *)
(* from the constructor's state, where the apple lies two cells ahead of    *)
(* the snake, and boards that play reaches only after many apples, on which *)
(* spawnApple is applied directly.                                          *)
(***************************************************************************)
\* n TICK syscalls, one per frame of budget 2
RECURSIVE TicksOnly(_)
TicksOnly(n) == IF n = 0 THEN <<>> ELSE <<SYSCALL, SNAKE_TICK>> \o TicksOnly(n - 1)

\* the i-th cell of the path that runs along row 0 to the right, row 1 to the left,
\* and so on over the 20 x 20 board
PathCell(i) ==
  LET y == (i - 1) \div 20
      c == (i - 1) % 20
  IN  Cell(IF y % 2 = 0 THEN c ELSE 19 - c, y)

\* a snake of n cells lying along the path, its head on (0, 0)
PathSnake(n) == [i \in 1..n |-> PathCell(i)]

SnakeLengths == { 3, 200, 390, 398, 399, 400 }

\* PRNG registers at a call; 0 is what INIT seeds for osId 0xA5A5A5A5
SpawnSeeds == {<<0, 0>>} \cup ({1, 42405, 49407, 63159} \X {1, 2, 3, 60929, 58606})

\* the interpreter at a call of spawnApple in snakeTick: the head has just moved
\* onto the apple
SpawnBoard(n, prng) ==
  [NewVM([entryPoint |-> 0, osId |-> OsSnak], ProgBuiltin)
     EXCEPT !.prng = prng, !.render.snake = PathSnake(n), !.render.apple = PathCell(1)]

InitApple ==
  /\ \/ /\ vm = NewVM([entryPoint |-> 0, osId |-> OsSnak], TicksOnly(MaxGameFrames))
        /\ calc = None
     \/ /\ vm = None
        /\ \E n \in SnakeLengths, prng \in SpawnSeeds : calc = [op |-> "board", m |-> SpawnBoard(n, prng)]
  /\ obs = None
  /\ frames = 0
  /\ failed = FALSE
  /\ HostIdle
  /\ CodecAbsent

AppleIO(cmd, replay) == vm # None /\ GameIO(cmd, replay)

AppleFrame == vm # None /\ GameFrame

\* spawnApple on the board
Spawn ==
  /\ calc # None
  /\ calc.op = "board"
  /\ \E r \in {spawnLoop([m |-> calc.m, ev |-> <<>>])} :
       calc' = [op |-> "spawned", m |-> r.s.m, before |-> calc.m, tries |-> r.tries]
  /\ UNCHANGED <<codecVars, vmVars, host>>

AppleNext ==
  \/ \E cmd \in GameCmds, replay \in BOOLEAN : AppleIO(cmd, replay)
  \/ AppleFrame
  \/ Spawn

SpecApple == InitApple /\ [][AppleNext]_vars

(***************************************************************************)
(* vm.js: the game in play.  A game starts from one of three positions      *)
(* that a script of commands, one per tick, has played it into from the     *)
(* constructor (INIT only; next to the first apple; next to the second      *)
(* apple, on the bottom row), or from a board the snake fills, which play   *)
(* reaches after 397 apples.  It then runs MaxPlayTicks TICK frames under   *)
(* any commands and one INIT frame.                                         *)
(***************************************************************************)
MaxPlayTicks == 4

\* the frames of free play: TICK syscalls, then INIT
FreePart == TicksOnly(MaxPlayTicks) \o <<SYSCALL, SNAKE_INIT>>

\* start (5), nine ticks up, left (3), three ticks on: the head stands right of the
\* first apple
ScriptFirstApple == <<5, 0, 0, 0, 0, 0, 0, 0, 0, 0, 3, 0, 0, 0>>

\* the first apple eaten, down (2) to the bottom row, left (3): the head stands right
\* of the second apple
ScriptSecondApple ==
  ScriptFirstApple \o <<0, 2>> \o [i \in 1..16 |-> 0] \o <<3>>

Scripts == { <<>>, ScriptFirstApple, ScriptSecondApple }

\* frameTick = (frameTick + 1) >>> 0
NextTick(t) ==
  IF t = <<65535, 65535>> THEN <<0, 0>>
  ELSE IF t[2] = 65535 THEN <<t[1] + 1, 0>>
  ELSE <<t[1], t[2] + 1>>

\* the frames of a script from its i-th command on: setIO, then runFrame for one syscall
RECURSIVE PlayFrom(_, _, _)
PlayFrom(m, script, i) ==
  IF i > Len(script) THEN m
  ELSE Only({ PlayFrom(r.m, script, i + 1)
              : r \in {runFrame(setIO(m, script[i], NextTick(m.render.lastTick)), 2)} })

\* a new instance, its INIT frame, and the frames of the script
Played(script) ==
  LET m0 == NewVM([entryPoint |-> 0, osId |-> OsSnak], TickProgram(Len(script)) \o FreePart)
  IN  PlayFrom(runFrame(m0, 2).m, script, 1)

Positions == [script \in Scripts |-> Played(script)]

\* the i-th cell of the closed path over the whole board: row 0 to the right, rows 1
\* to 19 winding over columns 1 to 19, column 0 back up
CycleCell(i) ==
  IF i <= 20 THEN Cell(i - 1, 0)
  ELSE IF i <= 381
    THEN LET row == 1 + ((i - 21) \div 19)
             c == (i - 21) % 19
         IN  Cell(IF row % 2 = 1 THEN 19 - c ELSE 1 + c, row)
  ELSE Cell(0, 19 - (i - 382))

\* the snake of 400 cells on the closed path with its head on the k-th cell: the
\* tail lies on the cell ahead of the head
CycleSnake(k) == [i \in 1..400 |-> CycleCell(((k - i) % 400) + 1)]

\* the full board, moving right along row 0, with the apple where the last spawnApple
\* had to leave it: under the snake's cell at
FullBoard(at) ==
  [NewVM([entryPoint |-> 0, osId |-> OsSnak], FreePart)
     EXCEPT !.prng = <<42405, 1>>,
            !.render.snake = CycleSnake(5),
            !.render.apple = CycleSnake(5)[at],
            !.render.score = 397,
            !.render.high = 397,
            !.render.dir = 1,
            !.render.pendingDir = 1,
            !.render.lastTick = <<0, 4000>>]

\* the apple under the head (the last apple has just been eaten) and under the tail
\* (399 ticks later)
FullBoards == { FullBoard(1), FullBoard(400) }

InitPlay ==
  /\ vm \in { Positions[script] : script \in Scripts } \cup FullBoards
  /\ obs = None
  /\ frames = 0
  /\ failed = FALSE
  /\ calc = None
  /\ HostIdle
  /\ CodecAbsent

\* the host writes the registers for the next frame: a new tick or the last one again
PlayIO(cmd, replay) ==
  /\ frames < MaxPlayTicks + 1
  /\ vm' = setIO(vm, cmd, IF replay THEN vm.render.lastTick ELSE NextTick(vm.render.lastTick))
  /\ UNCHANGED <<obs, frames, failed, codecVars, hostVars>>

PlayFrame == Frame(2, MaxPlayTicks + 1)

PlayNext ==
  \/ \E cmd \in GameCmds, replay \in BOOLEAN : PlayIO(cmd, replay)
  \/ PlayFrame

SpecPlay == InitPlay /\ [][PlayNext]_vars

(***************************************************************************)
(* Properties of the host page                                             *)
(***************************************************************************)
\* what left a call of loadCartridge as an exception of the loader's own code (the
\* image decoder's rejection of the bytes is the browser's)
LoaderThrows == { t \in host.thrown : t.at = "loadCartridge" /\ t.err # BitmapError }

\* C11: whatever is wrong with a cartridge (structure, integrity, capacity, missing
\* Header or Bytecode, or a payload that does not match its schema such as a Header
\* payload shorter than the fixed header record), loadCartridge ends normally in the
\* view-only state and throws nothing.
C11_LoadNeverThrows == LoaderThrows = {}

\* C19: the commands the host handles itself (7 download, 8 capture, 9 load) never
\* reach the interpreter: the cmd register that step() writes through setIO, and
\* lastCmd that it takes it from, are never 7, 8 or 9.
C19_HostCmdsStayInHost ==
  /\ host.lastCmd \notin {7, 8, 9}
  /\ vm # None => vm.ioCmd \notin {7, 8, 9}

\* a touch resolved to a host command, and a later step() wrote the register
C19_Witness ==
  /\ host.hostCmd.cmd \in {7, 8, 9}
  /\ vm # None
  /\ host.hostCmd.tick < host.frameTick
  /\ vm.ioTick = <<0, host.frameTick>>

\* C12: once a call of loadCartridge has ended on a failure path (the page shows
\* view-only), the host holds no interpreter instance, whatever was loaded before:
\* a tick of the loop that calls step() runs no bytecode and leaves the interpreter
\* and its game state as they were.
C12_ViewOnlyStepsNothing ==
  [][(host.status = StViewOnly /\ host'.frameTick # host.frameTick) => (vm = None /\ vm' = vm)]_vars

\* the step taken is a tick of the loop that calls step() on an instance running the
\* built-in bytecode
StepsBuiltin ==
  /\ host'.frameTick = host.frameTick + 1
  /\ vm # None
  /\ vm.code = ProgBuiltin

\* the events of the frame that are calls of the syscall id
CallsOf(ev, id) == { i \in 1..Len(ev) : ev[i].e = "sys" /\ ev[i].id = id }

\* C27: after a successful load of the built-in bytecode (INIT; TICK; HALT), every
\* step(tick) of the loop runs the TICK syscall exactly once and INIT not at all, so
\* that after the step lastTick is the tick the loop passed.
C27_EveryStepTicks ==
  [][StepsBuiltin =>
       /\ Cardinality(CallsOf(obs'.ev, SNAKE_TICK)) = 1
       /\ CallsOf(obs'.ev, SNAKE_INIT) = {}
       /\ vm'.render.lastTick = <<0, host'.frameTick>>]_vars

\* what the loop does: the step that finds the program counter on the TICK entry
\* (the first after a load) runs TICK once; every later one finds it past the end of
\* the bytecode, runs no syscall and leaves lastTick behind
C27_FirstStepTicks ==
  [][StepsBuiltin =>
       /\ CallsOf(obs'.ev, SNAKE_INIT) = {}
       /\ (vm.pc = 2) =>
            /\ Cardinality(CallsOf(obs'.ev, SNAKE_TICK)) = 1
            /\ vm'.render.lastTick = <<0, host'.frameTick>>
       /\ (vm.pc # 2) =>
            /\ vm.pc >= Len(vm.code)
            /\ CallsOf(obs'.ev, SNAKE_TICK) = {}
            /\ vm'.render.lastTick = vm.render.lastTick]_vars

\* the cartridges loadCartridge accepts and starts
ValidCartridges == { bytes \in Cartridges : Loaded[bytes].go = "run" }

\* the active truth table, the base bitmap and the interpreter (its bytecode, its
\* osId and the truth table it was made with) are those of the cartridge
AllFrom(bytes) ==
  /\ host.truth = Loaded[bytes].truth
  /\ host.baseBitmap = Bitmaps[bytes]
  /\ vm.code = Loaded[bytes].bytecode
  /\ vm.header.osId = Loaded[bytes].osId
  /\ vm.truthTable = Loaded[bytes].truth

\* every call of loadCartridge has run to its end, none has thrown, and the last to
\* end has started an interpreter
LoadsSettled ==
  /\ host.pending = <<>>
  /\ host.thrown = {}
  /\ host.status = "running"
  /\ vm # None

\* C28: when calls of loadCartridge for valid cartridges overlap at their await of
\* the image decoder and the decoders settle in either order, with steps of the loop
\* in between, then once the calls have all ended the active truth table, the base
\* bitmap and the interpreter all come from one and the same cartridge.
C28_OverlappingLoadsConsistent ==
  LoadsSettled => \E bytes \in ValidCartridges : AllFrom(bytes)

(***************************************************************************)
(* Properties of the apple                                                 *)
(***************************************************************************)
OnSnake(render) == \E i \in 1..Len(render.snake) : render.snake[i] = render.apple

Full(render) == Cardinality(Occupied(render.snake, render.boardW)) = render.boardW * render.boardH

\* C20: spawnApple ends after at most 2048 draws and one scan, and if some cell of
\* the board is free of the snake it leaves the apple on a free cell of the board;
\* so in every state of the game in which the snake does not fill the board the
\* apple is on no cell of the snake.
C20_AppleOffSnake ==
  /\ vm # None => (Full(vm.render) \/ ~OnSnake(vm.render))
  /\ (calc # None /\ calc.op = "spawned") =>
       /\ calc.tries <= MaxTries
       /\ calc.m.render.snake = calc.before.render.snake
       /\ ~Full(calc.m.render) =>
            /\ ~OnSnake(calc.m.render)
            /\ calc.m.render.apple.x \in 0..(calc.m.render.boardW - 1)
            /\ calc.m.render.apple.y \in 0..(calc.m.render.boardH - 1)

\* every one of the 2048 draws hit the snake and the scan found the free cell
C20_Witness ==
  /\ calc # None
  /\ calc.op = "spawned"
  /\ calc.tries = MaxTries
  /\ ~Full(calc.m.render)
  /\ ~OnSnake(calc.m.render)

(***************************************************************************)
(* Properties of the game in play.  They are read off the TICK and INIT    *)
(* calls of the last frame: the instance as the call found it (pre) and as *)
(* it left it (post).                                                      *)
(***************************************************************************)
\* the call at event i is a TICK that is not a replay
Processed(i) == IsSys(i, SNAKE_TICK) /\ ~Replayed(i)

\* the paused flag once the command of the tick at event i has been handled
PausedAfterCmd(i) ==
  IF Before(i).ioCmd = 5 /\ ~Before(i).render.gameOver THEN ~Before(i).render.paused
  ELSE Before(i).render.paused

\* the tick at event i finds the game paused or over after command handling
Held(i) == PausedAfterCmd(i) \/ Before(i).render.gameOver

\* C22: a processed TICK (command other than 6) that finds the game paused or over
\* after command handling leaves snake, apple, score, high, dir and the PRNG
\* register unchanged; gameOver, once set, stays set under every TICK whose command
\* is not 6; and command 5 leaves the paused flag alone while gameOver is set.
C22_PausedAndOverFreeze ==
  \A i \in 1..Len(Ev) :
    (IsSys(i, SNAKE_TICK) /\ Before(i).ioCmd # 6) =>
      LET pre == Before(i).render
          post == After(i).render
      IN  /\ (Processed(i) /\ Held(i)) =>
               /\ post.snake = pre.snake
               /\ post.apple = pre.apple
               /\ post.score = pre.score
               /\ post.high = pre.high
               /\ post.dir = pre.dir
               /\ After(i).prng = Before(i).prng
          /\ pre.gameOver => post.gameOver
          /\ (pre.gameOver /\ Before(i).ioCmd = 5) => post.paused = pre.paused

\* a processed TICK with command 5 found a game that had ended with apples eaten
C22_Witness ==
  \E i \in 1..Len(Ev) :
    /\ Processed(i)
    /\ Before(i).ioCmd = 5
    /\ Before(i).render.gameOver
    /\ Before(i).render.score > 0
    /\ After(i).render.lastTick # Before(i).render.lastTick

\* what INIT leaves for osId 0x534E414B: the register 0xA5A5A5A5 XOR osId =
\* 0xF6EBE4EE advanced by the one draw of the apple spawn, and the apple it drew
InitPrng == <<50362, 23413>>

InitApple0 == Cell(5, 2)

\* C23: a processed TICK with command 6, from a running, a paused or a finished
\* game, leaves the state INIT leaves, with paused false: the snake on its 3-cell
\* seed (so it has not moved in that tick), score 0, dir and pendingDir up, gameOver
\* false, the PRNG reseeded to 0xA5A5A5A5 XOR osId and advanced by the apple spawn.
C23_RestartIsInit ==
  \A i \in 1..Len(Ev) :
    (Processed(i) /\ Before(i).ioCmd = 6) =>
      LET pre == Before(i).render
          post == After(i).render
      IN  /\ post.snake = <<Cell(10, 12), Cell(10, 13), Cell(10, 14)>>
          /\ post.score = 0
          /\ post.dir = 0
          /\ post.pendingDir = 0
          /\ ~post.gameOver
          /\ ~post.paused
          /\ post.boardW = 20 /\ post.boardH = 20
          /\ post.high = pre.high
          /\ post.lastTick = Before(i).ioTick
          /\ (Before(i).header.osId = OsSnak) =>
               (After(i).prng = InitPrng /\ post.apple = InitApple0)

\* a restart of a game that had ended with two apples eaten
C23_Witness ==
  \E i \in 1..Len(Ev) :
    /\ Processed(i)
    /\ Before(i).ioCmd = 6
    /\ Before(i).render.gameOver
    /\ Before(i).render.score = 2
    /\ Before(i).render.snake[1] # Cell(10, 12)
    /\ After(i).render.snake[1] = Cell(10, 12)

\* the cell ahead of the head in direction d (0 up, 1 right, 2 down, 3 left)
Ahead(head, d) ==
  IF d = 0 THEN Cell(head.x, head.y - 1)
  ELSE IF d = 1 THEN Cell(head.x + 1, head.y)
  ELSE IF d = 2 THEN Cell(head.x, head.y + 1)
  ELSE Cell(head.x - 1, head.y)

\* the tick at event i makes a move: processed, not a restart, game neither paused
\* nor over after command handling
Moves(i) == Processed(i) /\ Before(i).ioCmd # 6 /\ ~Held(i)

\* the cell the move at event i goes for
Target(i) == Ahead(Before(i).render.snake[1], After(i).render.pendingDir)

OnBoard(c, render) == c.x \in 0..(render.boardW - 1) /\ c.y \in 0..(render.boardH - 1)

\* the positions of the snake that hold cell c
Holding(snake, c) == { k \in 1..Len(snake) : snake[k] = c }

\* C24: a move to a cell outside the board sets gameOver and leaves snake, apple and
\* score unchanged.  A move that does not eat the apple may step onto the cell the
\* tail is on (no gameOver, the tail vacates), and onto any other cell of the body
\* it sets gameOver and leaves the snake unchanged.  A move that eats the apple is a
\* collision on every cell of the body, the tail included.
C24_CollisionRule ==
  \A i \in 1..Len(Ev) :
    Moves(i) =>
      LET pre == Before(i).render
          post == After(i).render
          t == Target(i)
          n == Len(pre.snake)
          at == Holding(pre.snake, t)
      IN  IF ~OnBoard(t, pre)
            THEN post.gameOver /\ post.snake = pre.snake /\ post.apple = pre.apple /\ post.score = pre.score
          ELSE IF t # pre.apple
            THEN /\ (at = {n}) =>
                      /\ ~post.gameOver
                      /\ post.snake = <<t>> \o SubSeq(pre.snake, 1, n - 1)
                 /\ (at \ {n} # {}) => (post.gameOver /\ post.snake = pre.snake)
                 /\ (at = {}) => (~post.gameOver /\ post.snake[1] = t)
          ELSE /\ (at # {}) => (post.gameOver /\ post.snake = pre.snake)
               /\ (at = {}) => (~post.gameOver /\ post.snake = <<t>> \o pre.snake)

\* on the full board the head went for the tail's cell with the apple under it
C24_Witness ==
  \E i \in 1..Len(Ev) :
    /\ Moves(i)
    /\ Target(i) = Before(i).render.apple
    /\ Target(i) = Before(i).render.snake[Len(Before(i).render.snake)]
    /\ After(i).render.gameOver

Adjacent(a, b) ==
  \/ a.x = b.x /\ (a.y = b.y + 1 \/ b.y = a.y + 1)
  \/ a.y = b.y /\ (a.x = b.x + 1 \/ b.x = a.x + 1)

WellFormed(render) ==
  /\ \A k \in 1..Len(render.snake) : OnBoard(render.snake[k], render)
  /\ Cardinality({ render.snake[k] : k \in 1..Len(render.snake) }) = Len(render.snake)
  /\ \A k \in 1..(Len(render.snake) - 1) : Adjacent(render.snake[k], render.snake[k + 1])

\* C25: in every state INIT and TICK reach, every cell of the snake lies on the
\* board, no two cells of the snake are the same, and consecutive cells of the body
\* differ by one in exactly one coordinate.
C25_SnakeWellFormed == WellFormed(vm.render)

\* a snake of four cells has just stepped onto the cell its tail was on
C25_Witness ==
  \E i \in 1..Len(Ev) :
    /\ Moves(i)
    /\ Len(Before(i).render.snake) = 4
    /\ Target(i) = Before(i).render.snake[4]
    /\ vm.render.snake[1] = Target(i)
    /\ ~vm.render.gameOver

\* the move at event i eats the apple
Eats(i) ==
  /\ Moves(i)
  /\ Target(i) = Before(i).render.apple
  /\ ~After(i).render.gameOver

\* C26: the snake is score + 3 cells long and high is at least score; a call adds
\* exactly 1 to score when it is a move that eats the apple and otherwise leaves
\* score alone or, as INIT or a restart (command 6), sets it to 0; no call lowers high.
C26_ScoreInvariants ==
  /\ Len(vm.render.snake) = vm.render.score + 3
  /\ vm.render.high >= vm.render.score
  /\ \A i \in 1..Len(Ev) :
       (Ev[i].e = "sys") =>
         LET pre == Before(i).render
             post == After(i).render
         IN  /\ post.high >= pre.high
             /\ Len(post.snake) = post.score + 3
             /\ post.score = IF IsSys(i, SNAKE_INIT) \/ (Processed(i) /\ Before(i).ioCmd = 6) THEN 0
                              ELSE IF IsSys(i, SNAKE_TICK) /\ Eats(i) THEN pre.score + 1
                              ELSE pre.score

\* INIT on a running game that has eaten two apples
C26_Witness ==
  \E i \in 1..Len(Ev) :
    /\ IsSys(i, SNAKE_INIT)
    /\ Before(i).render.score = 2
    /\ ~Before(i).render.gameOver
    /\ After(i).render.score = 0
    /\ After(i).render.high = 2

=============================================================================
